---- MODULE Spec2Model ----
(***************************************************************************)
(* Model of the realtime bridge engine of QMTDataer                        *)
(* (core/realtime_service.py: RealtimeSubscriptionService).                *)
(*                                                                         *)
(* Timestamps are minutes.  A normalised bar_end_ts (an ISO-8601 string    *)
(* with the +08:00 offset) and the aware datetime parsed from it are both  *)
(* represented by the wall-clock minute at +08:00.  Of the OHLCV fields    *)
(* only close is carried: the others are copied through the engine in      *)
(* exactly the same way.  recv_ts and source are not carried.              *)
(* publisher.publish is the hand-over point: `published' is the sequence   *)
(* of payloads handed to it, in call order.                                *)
(*                                                                         *)
(* The ControlPlane (core/control_plane.py) handles one command at a time  *)
(* over the Registry (core/registry.py); a sub_id is the number of the     *)
(* command that made it, as fresh as gen_sub_id's time and uuid.  Of a     *)
(* SubscriptionSpec, topic and created_at are not carried.  An ACK is      *)
(* recorded with its channel (the strategy, without the ack prefix).       *)
(* PubSubPublisher.publish (core/pubsub_publisher.py) is modelled attempt  *)
(* by attempt, with the counters of core/metrics.py it updates.            *)
(***************************************************************************)
EXTENDS Integers, Sequences, FiniteSets, TLC

\* ------------------------------------------------------------------------
\* Bounds of the model
\* ------------------------------------------------------------------------
MaxTs == 3
MaxEvents == 3
MaxBatch == 2
MaxFeed == 4
MaxChurn == 5
MaxBundle == 2
MaxDedup == 2
MaxTwin == 4
MaxCmds == 2
MaxRetries == 3
MaxBus == 6
MaxFault == 3
MaxCalls == 2
MaxMock == 3

\* timezone(timedelta(hours=8)), in minutes
CN_TZ ==
    8 * 60

Codes == {"A", "B"}
Periods == {"1m"}
Keys == Codes \X Periods
Modes == {"close_only", "forming_and_close"}
Closes == {2510}
FeedCloses == {2510, 2515, 2520}
Threads == {"t1", "t2"}

\* Optional[datetime] / Optional[str]: no value
None == 0

\* ------------------------------------------------------------------------
\* Raw vendor rows
\* ------------------------------------------------------------------------
\* The raw time field: "cn" is a string without offset (taken as +08:00),
\* "z" an ISO string ending in Z (UTC), "none" a missing or unparseable one.
RawTimes ==
    {[k |-> "cn", v |-> i] : i \in 1..MaxTs}
        \cup {[k |-> "z", v |-> 1 - CN_TZ], [k |-> "none", v |-> 0]}

\* isClosed / isClose / closed of the row: absent, true or false
Flags == {"None", "True", "False"}

RowsOf(CL) ==
    [time : RawTimes, close : CL, isClosed : Flags]

\* rows delivered together with other rows in one callback
PlainOf(CL) ==
    {r \in RowsOf(CL) : r.time.k = "cn" /\ r.isClosed = "None"}

RawRows == RowsOf(Closes)
PlainRows == PlainOf(Closes)

NonePayload ==
    [code |-> "None", period |-> "None", bar_end_ts |-> None,
     is_closed |-> FALSE, close |-> 0]

\* _normalize_bar_end_ts: every accepted form becomes the +08:00 wall clock
NormalizeBarEndTs(raw) ==
    CASE raw.k = "cn" -> raw.v
      [] raw.k = "z" -> raw.v + CN_TZ
      [] raw.k = "iso" -> raw.v
      [] OTHER -> None

\* _build_payload_from_row: None (NonePayload) when the time does not parse;
\* is_closed is the vendor flag, bool() of it when present.
BuildPayloadFromRow(code, period, row) ==
    LET bar_end_ts == NormalizeBarEndTs(row.time) IN
    IF bar_end_ts = None THEN NonePayload
    ELSE [code |-> code, period |-> period, bar_end_ts |-> bar_end_ts,
          is_closed |-> row.isClosed, close |-> row.close]

\* list.sort(key=bar_dt): stable insertion of one element
RECURSIVE InsertByDt(_, _)
InsertByDt(x, s) ==
    IF s = <<>> THEN <<x>>
    ELSE IF x.bar_dt < Head(s).bar_dt THEN <<x>> \o s
    ELSE <<Head(s)>> \o InsertByDt(x, Tail(s))

RECURSIVE SortByDt(_)
SortByDt(s) ==
    IF s = <<>> THEN <<>>
    ELSE InsertByDt(s[Len(s)], SortByDt(SubSeq(s, 1, Len(s) - 1)))

\* _on_datas, lines 454-473: the rows of one code, bad rows dropped, sorted
RECURSIVE NormalizedRows(_, _, _)
NormalizedRows(code, period, rows) ==
    IF rows = <<>> THEN <<>>
    ELSE
        LET payload == BuildPayloadFromRow(code, period, Head(rows))
            bar_iso == NormalizeBarEndTs([k |-> "iso", v |-> payload.bar_end_ts])
            rest == NormalizedRows(code, period, Tail(rows))
        IN  IF payload = NonePayload \/ bar_iso = None THEN rest
            ELSE <<[code |-> code, bar_dt |-> bar_iso,
                    payload |-> [payload EXCEPT !.bar_end_ts = bar_iso]]>> \o rest

\* _on_datas, lines 451-475: the calls of _handle_bar_update one callback
\* makes, in order (datas is the sequence of the dict's items)
RECURSIVE WorkList(_, _)
WorkList(period, datas) ==
    IF datas = <<>> THEN <<>>
    ELSE SortByDt(NormalizedRows(Head(datas).code, period, Head(datas).rows))
            \o WorkList(period, Tail(datas))

\* ------------------------------------------------------------------------
\* Bar state machine
\* ------------------------------------------------------------------------
\* _BarState()
NewBarState ==
    [current_payload |-> NonePayload, current_dt |-> None,
     last_published_dt |-> None]

\* lines 485-489
StorePayload(code, period, payload) ==
    [payload EXCEPT !.code = code, !.period = period, !.is_closed = FALSE]

\* forming_payload, lines 498-500, 510-512, 522-524
FormingPayload(mode, store_payload) ==
    IF mode = "forming_and_close"
    THEN <<[store_payload EXCEPT !.is_closed = FALSE]>>
    ELSE <<>>

\* finalized, lines 514-518
Finalized(state) ==
    IF state.current_payload # NonePayload
    THEN <<[state.current_payload EXCEPT !.is_closed = TRUE]>>
    ELSE <<>>

\* Branch without the out-of-order test of line 501
Branch_NoStale(state, bar_dt) ==
    IF state.current_dt = None THEN "first"
    ELSE IF bar_dt = state.current_dt THEN "same"
    ELSE "advance"

\* Branch with the out-of-order rows taken as updates of the forming bar
Branch_StaleAsSame(state, bar_dt) ==
    IF state.current_dt = None THEN "first"
    ELSE IF bar_dt <= state.current_dt THEN "same"
    ELSE "advance"

\* the branch of lines 494, 501, 507, 513 the update takes
Branch(state, bar_dt) ==
    IF state.current_dt = None THEN "first"
    ELSE IF bar_dt < state.current_dt THEN "stale"
    ELSE IF bar_dt = state.current_dt THEN "same"
    ELSE "advance"

\* Apply keeping the first payload of a bar instead of the latest (line 508)
Apply_KeepFirst(branch, state, mode, bar_dt, store_payload) ==
    CASE branch = "first" ->
            [state |-> [state EXCEPT !.current_dt = bar_dt,
                                     !.current_payload = store_payload],
             to_publish |-> FormingPayload(mode, store_payload)]
      [] branch = "stale" ->
            [state |-> state, to_publish |-> <<>>]
      [] branch = "same" ->
            [state |-> state,
             to_publish |-> FormingPayload(mode, store_payload)]
      [] OTHER ->
            [state |->
                [current_payload |-> store_payload,
                 current_dt |-> bar_dt,
                 last_published_dt |->
                    IF state.current_payload # NonePayload
                    THEN state.current_dt ELSE state.last_published_dt],
             to_publish |-> Finalized(state) \o FormingPayload(mode, store_payload)]

\* the new BarState and the list to_publish of each branch (lines 494-524)
Apply(branch, state, mode, bar_dt, store_payload) ==
    CASE branch = "first" ->
            [state |-> [state EXCEPT !.current_dt = bar_dt,
                                     !.current_payload = store_payload],
             to_publish |-> FormingPayload(mode, store_payload)]
      [] branch = "stale" ->
            [state |-> state, to_publish |-> <<>>]
      [] branch = "same" ->
            [state |-> [state EXCEPT !.current_payload = store_payload],
             to_publish |-> FormingPayload(mode, store_payload)]
      [] OTHER ->
            [state |->
                [current_payload |-> store_payload,
                 current_dt |-> bar_dt,
                 last_published_dt |->
                    IF state.current_payload # NonePayload
                    THEN state.current_dt ELSE state.last_published_dt],
             to_publish |-> Finalized(state) \o FormingPayload(mode, store_payload)]

\* _bar_states.setdefault(key, _BarState())
StateOf(states, key) ==
    IF key \in DOMAIN states THEN states[key] ELSE NewBarState

\* HandleBarUpdate closing a bar at once when the vendor flags the row closed
HandleBarUpdate_VendorFlag(states, mode, code, period, bar_dt, payload) ==
    LET key == <<code, period>>
        state == StateOf(states, key)
        store_payload == StorePayload(code, period, payload)
        res == Apply(Branch(state, bar_dt), state, mode, bar_dt, store_payload)
    IN  [bar_states |-> [k \in DOMAIN states \cup {key} |->
                            IF k = key THEN res.state ELSE states[k]],
         to_publish |->
            IF payload.is_closed = "True" /\ Branch(state, bar_dt) # "stale"
            THEN res.to_publish \o <<[store_payload EXCEPT !.is_closed = TRUE]>>
            ELSE res.to_publish]

\* _handle_bar_update, the section under the lock (lines 491-524):
\* the new _bar_states and the list to_publish
HandleBarUpdate(states, mode, code, period, bar_dt, payload) ==
    LET key == <<code, period>>
        state == StateOf(states, key)
        res == Apply(Branch(state, bar_dt), state, mode, bar_dt,
                     StorePayload(code, period, payload))
    IN  [bar_states |-> [k \in DOMAIN states \cup {key} |->
                            IF k = key THEN res.state ELSE states[k]],
         to_publish |-> res.to_publish]

\* ------------------------------------------------------------------------
\* Publishing: mode gate, dedup LRU, hand-over
\* ------------------------------------------------------------------------
\* _publish_payload, lines 531-538: the payload is dropped before dedup
Skipped(mode, payload) ==
    \/ payload.code = "None" \/ payload.period = "None"
    \/ payload.bar_end_ts = None
    \/ (mode = "close_only" /\ ~payload.is_closed)

\* dkey, lines 539-542
DedupKey(mode, payload) ==
    IF mode = "forming_and_close"
    THEN <<payload.code, payload.period, payload.bar_end_ts,
           IF payload.is_closed THEN 1 ELSE 0>>
    ELSE <<payload.code, payload.period, payload.bar_end_ts>>

\* _is_dup_and_mark that pops the queue on overflow and leaves the set
IsDupAndMark_NoDiscard(dset, dq, dmax, key) ==
    IF key \in dset THEN [dup |-> TRUE, dedup_set |-> dset, dedup_q |-> dq]
    ELSE LET q == Append(dq, key) IN
         IF Len(q) > dmax
         THEN [dup |-> FALSE, dedup_set |-> dset \cup {key},
               dedup_q |-> Tail(q)]
         ELSE [dup |-> FALSE, dedup_set |-> dset \cup {key}, dedup_q |-> q]

\* _is_dup_and_mark
IsDupAndMark(dset, dq, dmax, key) ==
    IF key \in dset THEN [dup |-> TRUE, dedup_set |-> dset, dedup_q |-> dq]
    ELSE LET q == Append(dq, key) IN
         IF Len(q) > dmax
         THEN [dup |-> FALSE, dedup_set |-> (dset \cup {key}) \ {Head(q)},
               dedup_q |-> Tail(q)]
         ELSE [dup |-> FALSE, dedup_set |-> dset \cup {key}, dedup_q |-> q]

\* Enriched reading is_closed under the vendor's key name, which the payload
\* does not have
Enriched_WrongKey(payload) ==
    [payload EXCEPT !.is_closed = FALSE]

\* enriched = dict(payload), lines 545-547
Enriched(payload) ==
    payload

\* ------------------------------------------------------------------------
\* State
\* ------------------------------------------------------------------------
VARIABLES
    cfg,          \* RealtimeConfig: mode, dedup_max_size
    subs,         \* _subs, the active keys
    registered,   \* keys with a vendor subscription (subscribe_quote)
    bar_states,   \* _bar_states
    dedup_set,    \* _dedup_set
    dedup_q,      \* _dedup_q
    last_pub_ts,  \* _last_pub_ts
    published,    \* payloads handed to publisher.publish, in call order
    th,           \* vendor dispatch threads running _cb / _on_datas
    ctl,          \* the caller of add_subscription / remove_subscription
    nev,          \* raw rows delivered so far
    twin,         \* a second engine, fed the same rows with other vendor flags
    quotes,       \* the vendor's live subscribe_quote registrations of each key
    accept,       \* ControlPlane._accept, the allowlist of strategies
    registry,     \* the three key families of the Registry
    acks,         \* the ACKs published by ControlPlane._ack, in order
    ncmd,         \* commands handled so far; the next sub_id
    publisher,    \* the PubSubPublisher.publish call in progress
    metrics,      \* Metrics._counters of the publisher
    main,         \* run_from_config: where the main thread is
    ctrl_thr,     \* the ControlPlane thread: its loop and its stop event
    health_thr,   \* the HealthReporter thread: its fields and its loop
    kv,           \* the health key on the bus KV: seconds left, record
    callers,      \* the threads inside Metrics.inc_published
    feeder        \* the MockBarFeeder of the engine, and stop() called or not

vars ==
    <<cfg, subs, registered, bar_states, dedup_set, dedup_q, last_pub_ts,
      published, th, ctl, nev, twin, quotes, accept, registry, acks, ncmd,
      publisher, metrics, main, ctrl_thr, health_thr, kv, callers, feeder>>

engine == <<bar_states, dedup_set, dedup_q, last_pub_ts, published>>

plane == <<accept, registry, acks, ncmd>>

bus == <<publisher, metrics>>

runtime == <<main, ctrl_thr, health_thr, kv, callers, feeder>>

\* the engine state after construction (lines 263-273)
NewEngine ==
    [bar_states |-> << >>, dedup_set |-> {}, dedup_q |-> <<>>,
     last_pub_ts |-> << >>, published |-> <<>>, differs |-> FALSE]

IdleThread ==
    [pc |-> "idle", period |-> "None", work |-> <<>>, to_publish |-> <<>>]

IdleCtl ==
    [pc |-> "idle", codes |-> <<>>, periods |-> <<>>]

\* Registry over an empty Redis: no key of the three families exists
NewRegistry ==
    [subs |-> {}, sub |-> << >>, strategy_subs |-> {}]

\* Metrics.__init__ and the global bars_published_total
NewMetrics ==
    [published |-> 0, publish_fail |-> 0, bars_published_total |-> 0]

\* no publish call yet: the loop variable i, the attempts made on the bus,
\* the failed ones among them, and the counters when the call began
IdlePublisher ==
    [pc |-> "idle", max_retries |-> 0, i |-> 0, attempts |-> 0, fails |-> 0,
     before |-> NewMetrics]

\* int() of a number of seconds given in tenths of a second (0.05 s reads
\* as 0, 2.5 s as 25): truncation toward zero
IntOf(tenths) ==
    IF tenths >= 0 THEN tenths \div 10 ELSE 0 - ((0 - tenths) \div 10)

Max(a, b) ==
    IF a >= b THEN a ELSE b

\* Metrics.snapshot: the counters of the one instance
Snapshot(m) ==
    [published |-> m.published, publish_fail |-> m.publish_fail]

\* a HealthReporter that writes ttl_sec as it is configured
NewHealthReporter_TtlAsConfigured(interval_sec, ttl_sec) ==
    [interval |-> Max(1, IntOf(interval_sec)), ttl |-> IntOf(ttl_sec),
     metrics |-> NewMetrics, stop_evt |-> FALSE, pc |-> "check",
     last |-> "none"]

\* HealthReporter.__init__ (interval_sec and ttl_sec in tenths of a second):
\* interval and ttl in seconds, its own Metrics instance, the stop event;
\* pc is the position of run, last the outcome of the last write
NewHealthReporter(interval_sec, ttl_sec) ==
    LET interval == Max(1, IntOf(interval_sec)) IN
    [interval |-> interval, ttl |-> Max(interval * 2, IntOf(ttl_sec)),
     metrics |-> NewMetrics, stop_evt |-> FALSE, pc |-> "check",
     last |-> "none"]

\* RealtimeSubscriptionService.__init__, for one RealtimeConfig, with a
\* ControlPlane and a PubSubPublisher that have handled nothing yet: the
\* ControlPlane thread before run (no PubSub, stop event clear), no health
\* key on the bus, no thread inside Metrics.inc_published, no MockBarFeeder
InitWith(c) ==
    /\ cfg = c
    /\ main = "run_forever"
    /\ ctrl_thr = [pc |-> "start", stop_evt |-> FALSE, pubsub |-> FALSE,
                   msg |-> "none"]
    /\ kv = [ttl |-> 0, metrics |-> Snapshot(NewMetrics)]
    /\ callers = [t \in Threads |-> [pc |-> "idle", seen |-> 0, calls |-> 0]]
    /\ feeder = [rf |-> "entry", pc |-> "none", stop_evt |-> FALSE,
                 stop_called |-> FALSE, states |-> <<>>]
    /\ quotes = [k \in Keys |-> 0]
    /\ registry = NewRegistry
    /\ acks = <<>>
    /\ ncmd = 0
    /\ publisher = IdlePublisher
    /\ metrics = NewMetrics
    /\ subs = {}
    /\ registered = {}
    /\ bar_states = << >>
    /\ dedup_set = {}
    /\ dedup_q = <<>>
    /\ last_pub_ts = << >>
    /\ published = <<>>
    /\ th = [t \in Threads |-> IdleThread]
    /\ ctl = IdleCtl
    /\ nev = 0
    /\ twin = NewEngine

Init ==
    /\ accept = {}
    /\ health_thr = NewHealthReporter(50, 200)
    /\ \E c \in [mode : Modes, dedup_max_size : 1..MaxDedup] : InitWith(c)

\* self._dedup_max = int(cfg.dedup_max_size or 50000)
DedupMax ==
    cfg.dedup_max_size

\* ------------------------------------------------------------------------
\* Vendor callbacks
\* ------------------------------------------------------------------------
CodePairs ==
    {cc \in Codes \X Codes : cc[1] # cc[2]}

\* the datas of one callback over the rows R1 (callbacks of one row) and R2
\* (callbacks of several rows): one row, up to MaxBatch rows of one code, or
\* one row for each of two codes (dict items in either order)
BatchesOf(CS, R1, R2) ==
    {<<[code |-> c, rows |-> <<r>>]>> : c \in CS, r \in R1}
        \cup {<<[code |-> c, rows |-> rs]>> :
                c \in CS, rs \in UNION {[1..n -> R2] : n \in 2..MaxBatch}}
        \cup {<<[code |-> cc[1], rows |-> <<r1>>], [code |-> cc[2], rows |-> <<r2>>]>> :
                cc \in CodePairs \cap (CS \X CS), r1 \in R2, r2 \in R2}

RECURSIVE RowCount(_)
RowCount(datas) ==
    IF datas = <<>> THEN 0 ELSE Len(Head(datas).rows) + RowCount(Tail(datas))

\* what a dispatch thread does after it is done with one payload or one row
Resume(work, to_publish) ==
    IF to_publish # <<>> THEN "pub"
    ELSE IF work # <<>> THEN "rows"
    ELSE "idle"

\* _handle_bar_update, lines 480-524: the first row of `work' is taken
\* through the section under the lock
HandleStep(t, period, work) ==
    LET r == Head(work)
        res == HandleBarUpdate(bar_states, cfg.mode, r.code, period,
                               r.bar_dt, r.payload)
    IN  /\ bar_states' = res.bar_states
        /\ th' = [th EXCEPT ![t] = [pc |-> Resume(Tail(work), res.to_publish),
                                    period |-> period, work |-> Tail(work),
                                    to_publish |-> res.to_publish]]

\* _cb -> _on_datas: the vendor invokes a registered callback of the period;
\* the rows are normalised and sorted per code (lines 448-473, local to the
\* thread) and the first of them is handled
OnDatas(t, period, datas, maxev) ==
    /\ th[t].pc = "idle"
    /\ \E k \in registered : k[2] = period
    /\ nev + RowCount(datas) <= maxev
    /\ nev' = nev + RowCount(datas)
    /\ LET work == WorkList(period, datas) IN
       IF work = <<>>
       THEN UNCHANGED <<bar_states, th>>
       ELSE HandleStep(t, period, work)
    /\ UNCHANGED <<cfg, subs, registered, dedup_set, dedup_q, last_pub_ts,
                   published, ctl, twin, quotes, plane, bus, runtime>>

\* _on_datas, lines 474-475: the next row of the callback
HandleRow(t) ==
    /\ th[t].pc = "rows"
    /\ HandleStep(t, th[t].period, th[t].work)
    /\ UNCHANGED <<cfg, subs, registered, dedup_set, dedup_q, last_pub_ts,
                   published, ctl, nev, twin, quotes, plane, bus, runtime>>

\* _publish_payload, lines 531-544: gate and dedup of the next payload
PublishCheck(t) ==
    /\ th[t].pc = "pub"
    /\ LET payload == Head(th[t].to_publish)
           rest == Tail(th[t].to_publish)
           d == IsDupAndMark(dedup_set, dedup_q, DedupMax,
                             DedupKey(cfg.mode, payload))
       IN  IF Skipped(cfg.mode, payload)
           THEN /\ th' = [th EXCEPT ![t].to_publish = rest,
                                    ![t].pc = Resume(th[t].work, rest)]
                /\ UNCHANGED <<dedup_set, dedup_q>>
           ELSE /\ dedup_set' = d.dedup_set
                /\ dedup_q' = d.dedup_q
                /\ th' = IF d.dup
                         THEN [th EXCEPT ![t].to_publish = rest,
                                         ![t].pc = Resume(th[t].work, rest)]
                         ELSE [th EXCEPT ![t].pc = "send"]
    /\ UNCHANGED <<cfg, subs, registered, bar_states, last_pub_ts, published,
                   ctl, nev, twin, quotes, plane, bus, runtime>>

\* _publish_payload, lines 545-550: publisher.publish(enriched), then the
\* time of the publish is recorded in _last_pub_ts (the write touches no
\* other state and is taken together with the hand-over; the clock counts
\* the publishes)
PublishSend(t) ==
    /\ th[t].pc = "send"
    /\ LET payload == Head(th[t].to_publish)
           key == <<payload.code, payload.period>>
           rest == Tail(th[t].to_publish)
       IN  /\ published' = Append(published, Enriched(payload))
           /\ last_pub_ts' = [k \in DOMAIN last_pub_ts \cup {key} |->
                                 IF k = key THEN Len(published) + 1
                                 ELSE last_pub_ts[k]]
           /\ th' = [th EXCEPT ![t].to_publish = rest,
                               ![t].pc = Resume(th[t].work, rest)]
    /\ UNCHANGED <<cfg, subs, registered, bar_states, dedup_set, dedup_q,
                   ctl, nev, twin, quotes, plane, bus, runtime>>

\* ------------------------------------------------------------------------
\* add_subscription / remove_subscription
\* ------------------------------------------------------------------------
CodeLists ==
    {<<c>> : c \in Codes} \cup {<<"A", "B">>}

PeriodLists ==
    {<<p>> : p \in Periods}

Range(s) ==
    {s[i] : i \in DOMAIN s}

\* codes x periods in the order of the nested loops (lines 330-331)
RECURSIVE KeyList(_, _)
KeyList(codes, periods) ==
    IF codes = <<>> THEN <<>>
    ELSE [i \in 1..Len(periods) |-> <<Head(codes), periods[i]>>]
            \o KeyList(Tail(codes), periods)

\* the keys registered by the loop of lines 329-340 when subscribe_quote
\* raises at the n-th key that is not yet active (n = 0: it never raises)
RECURSIVE Registered(_, _, _)
Registered(keys, active, n) ==
    IF keys = <<>> THEN {}
    ELSE IF Head(keys) \in active THEN Registered(Tail(keys), active, n)
    ELSE IF n = 1 THEN {}
    ELSE {Head(keys)}
            \cup Registered(Tail(keys), active \cup {Head(keys)},
                            IF n = 0 THEN 0 ELSE n - 1)

\* add_subscription without the `if (c, p) in self._subs: continue'
RegisterKeys_NoSkip(codes, periods, n) ==
    LET new == Registered(KeyList(codes, periods), {}, n) IN
    /\ subs' = subs \cup new
    /\ registered' = registered \cup new
    /\ quotes' = [k \in Keys |-> IF k \in new THEN quotes[k] + 1 ELSE quotes[k]]
    /\ ctl' = IdleCtl

\* add_subscription, lines 329-340, under the lock
RegisterKeys(codes, periods, n) ==
    LET new == Registered(KeyList(codes, periods), subs, n) IN
    /\ subs' = subs \cup new
    /\ registered' = registered \cup new
    /\ quotes' = [k \in Keys |-> IF k \in new THEN quotes[k] + 1 ELSE quotes[k]]
    /\ ctl' = IdleCtl

\* add_subscription with days = 0 (or no preload_days and cfg.preload_days
\* = 0): no preload, the keys are registered at once
AddSubscription(codes, periods, n) ==
    /\ ctl.pc = "idle"
    /\ RegisterKeys(codes, periods, n)
    /\ UNCHANGED <<cfg, engine, th, nev, twin, plane, bus, runtime>>

\* add_subscription with days > 0, lines 325-327: _preload_history is
\* entered; it blocks outside the lock
AddSubscriptionPreload(codes, periods) ==
    /\ ctl.pc = "idle"
    /\ ctl' = [pc |-> "preload", codes |-> codes, periods |-> periods]
    /\ UNCHANGED <<cfg, subs, registered, engine, th, nev, twin, quotes, plane, bus, runtime>>

\* _preload_history returns (it logs and swallows every failure) and the
\* keys are registered
PreloadReturn(n) ==
    /\ ctl.pc = "preload"
    /\ RegisterKeys(ctl.codes, ctl.periods, n)
    /\ UNCHANGED <<cfg, engine, th, nev, twin, plane, bus, runtime>>

\* remove_subscription that drops every active key, named or not
RemoveKeys_All(codes, periods, failed) ==
    /\ subs' = {}
    /\ registered' = {}
    /\ quotes' = [k \in Keys |-> 0]
    /\ bar_states' = <<>>

\* remove_subscription, lines 346-368, under the lock; `failed' are the keys
\* whose unsubscribe_quote raises
RemoveKeys(codes, periods, failed) ==
    LET gone == (Range(KeyList(codes, periods)) \cap subs) \ failed IN
    /\ subs' = subs \ gone
    /\ registered' = registered \ gone
    /\ quotes' = [k \in Keys |-> IF k \in gone THEN 0 ELSE quotes[k]]
    /\ bar_states' = [k \in DOMAIN bar_states \ gone |-> bar_states[k]]

RemoveSubscription(codes, periods, failed) ==
    /\ ctl.pc = "idle"
    /\ RemoveKeys(codes, periods, failed)
    /\ UNCHANGED <<cfg, dedup_set, dedup_q, last_pub_ts, published, th, ctl, nev,
                   twin, plane, bus, runtime>>

\* ------------------------------------------------------------------------
\* The engine with two vendor dispatch threads, one code
\* ------------------------------------------------------------------------
DispatchBatches ==
    BatchesOf({"A"}, RawRows, PlainRows)

Dispatch ==
    \E t \in Threads :
        \/ \E p \in Periods, datas \in DispatchBatches :
                OnDatas(t, p, datas, MaxEvents)
        \/ HandleRow(t)
        \/ PublishCheck(t)
        \/ PublishSend(t)

\* add_subscription without preload; subscribe_quote may raise
Control ==
    \E periods \in PeriodLists, n \in 0..1 :
        AddSubscription(<<"A">>, periods, n)

Next ==
    Dispatch \/ Control

Spec ==
    Init /\ [][Next]_vars

\* ------------------------------------------------------------------------
\* Properties of the engine with two dispatch threads
\* ------------------------------------------------------------------------
KeyOf(payload) ==
    <<payload.code, payload.period>>

\* C7: when two dispatch threads deliver callbacks for one key concurrently,
\* the bars of the key reach the publisher in ascending bar_end_ts order
C7_AscendingPerKey ==
    \A i \in 1..Len(published), j \in 1..Len(published) :
        (i < j /\ KeyOf(published[i]) = KeyOf(published[j]))
            => published[i].bar_end_ts <= published[j].bar_end_ts

\* C8: in close_only mode every bar handed to the publisher is closed
C8_CloseOnlyGate ==
    cfg.mode = "close_only" =>
        \A i \in 1..Len(published) : published[i].is_closed

C8_Witness ==
    /\ cfg.mode = "close_only"
    /\ Len(published) >= 2
    /\ \E t \in Threads : th[t].pc = "idle"

\* the calls of _handle_bar_update each callback makes
DispatchWork ==
    [p \in Periods, datas \in DispatchBatches |-> WorkList(p, datas)]

\* the row is older than the bar the key is forming
Stale(period, r) ==
    /\ <<r.code, period>> \in DOMAIN bar_states
    /\ bar_states[<<r.code, period>>].current_dt # None
    /\ r.bar_dt < bar_states[<<r.code, period>>].current_dt

\* the thread makes no publish for the row it has just handled
NothingToPublish(t) ==
    /\ th'[t].to_publish = <<>>
    /\ UNCHANGED <<bar_states, dedup_set, dedup_q, last_pub_ts, published>>

\* C9: an event with bar_dt earlier than the key's current_dt causes no
\* publish and leaves the BarState, the dedup LRU and last_pub_ts unchanged
C9_StaleDropped ==
    [][\A t \in Threads :
        /\ (HandleRow(t) /\ Stale(th[t].period, Head(th[t].work)))
                => NothingToPublish(t)
        /\ (th[t].pc = "idle" /\ nev' # nev) =>
                \A p \in Periods, datas \in DispatchBatches :
                    (/\ nev' = nev + RowCount(datas)
                     /\ DispatchWork[p, datas] # <<>>
                     /\ Stale(p, Head(DispatchWork[p, datas]))
                     /\ OnDatas(t, p, datas, MaxEvents))
                        => NothingToPublish(t)]_vars

\* a row at or before last_published_dt is the next one a thread handles
C9_Witness ==
    \E t \in Threads :
        /\ th[t].pc = "rows"
        /\ Stale(th[t].period, Head(th[t].work))
        /\ Head(th[t].work).bar_dt
                <= bar_states[<<Head(th[t].work).code, th[t].period>>].last_published_dt

\* ------------------------------------------------------------------------
\* The engine fed by one dispatch thread, no key ever removed
\* ------------------------------------------------------------------------
\* the rows of one callback with the bar times ts: successive updates, each
\* with a close one tick above the one before
UpdateRows(ts) ==
    [i \in 1..Len(ts) |->
        [time |-> [k |-> "cn", v |-> ts[i]], close |-> 2510 + 5 * (i - 1),
         isClosed |-> "None"]]

\* callbacks of one row of any form, and of up to MaxBatch successive updates
FeedBatches ==
    BatchesOf({"A"}, RowsOf(FeedCloses), {})
        \cup {<<[code |-> "A", rows |-> UpdateRows(ts)]>> :
                ts \in UNION {[1..n -> 1..MaxTs] : n \in 2..MaxBatch}}

Feed ==
    \/ \E p \in Periods, datas \in FeedBatches : OnDatas("t1", p, datas, MaxFeed)
    \/ HandleRow("t1")
    \/ PublishCheck("t1")
    \/ PublishSend("t1")

FeedControl ==
    Control

FeedNext ==
    Feed \/ FeedControl

SpecFeed ==
    Init /\ [][FeedNext]_vars

\* the calls of _handle_bar_update each callback makes
FeedWork ==
    [p \in Periods, datas \in FeedBatches |-> WorkList(p, datas)]

ClosedOf(key) ==
    {i \in 1..Len(published) : published[i].is_closed /\ KeyOf(published[i]) = key}

\* C1: for every key and every sequence of raw events, the closed bars handed
\* to the publisher have strictly increasing bar_end_ts, none of them above
\* the key's last_published_dt, which stays below the bar being formed
C1_ClosedStrictlyIncreasing ==
    \A key \in Keys :
        /\ \A i \in ClosedOf(key), j \in ClosedOf(key) :
                i < j => published[i].bar_end_ts < published[j].bar_end_ts
        /\ key \in DOMAIN bar_states =>
                /\ \A i \in ClosedOf(key) :
                        published[i].bar_end_ts <= bar_states[key].last_published_dt
                /\ bar_states[key].last_published_dt < bar_states[key].current_dt

\* two closed bars of one key have been published and a later row is handled
C1_Witness ==
    /\ Cardinality(ClosedOf(<<"A", "1m">>)) >= 2
    /\ nev = MaxFeed
    /\ th["t1"].pc = "idle"

\* C3: in forming_and_close mode every update of the bar being formed is
\* published as a forming bar with that update's payload; once the callback
\* is done, the payload the key holds has been published with is_closed=false
C3_FormingCarriesUpdate ==
    (cfg.mode = "forming_and_close" /\ th["t1"].pc = "idle") =>
        \A key \in DOMAIN bar_states :
            \E i \in 1..Len(published) :
                published[i] = [bar_states[key].current_payload
                                    EXCEPT !.is_closed = FALSE]

\* the bar the key is forming, closed
ClosedCurrent(key) ==
    [bar_states[key].current_payload EXCEPT !.is_closed = TRUE]

\* what close_only publishes for the row r of `period' handled by thread t:
\* the bar being formed, closed, when r is later; nothing otherwise; an
\* update of the bar being formed replaces its payload
ClosesOnAdvance(t, period, r) ==
    LET key == <<r.code, period>>
        st == StateOf(bar_states, key)
    IN  /\ (st.current_dt # None /\ r.bar_dt > st.current_dt)
                => th'[t].to_publish = <<ClosedCurrent(key)>>
        /\ (st.current_dt = None \/ r.bar_dt <= st.current_dt)
                => th'[t].to_publish = <<>>
        /\ (st.current_dt = None \/ r.bar_dt >= st.current_dt)
                => bar_states'[key].current_payload =
                        [code |-> r.code, period |-> period,
                         bar_end_ts |-> r.bar_dt, is_closed |-> FALSE,
                         close |-> r.payload.close]

C5_VendorClosedAtOnce ==
    [][\A p \in Periods, datas \in FeedBatches :
        (/\ OnDatas("t1", p, datas, MaxFeed)
         /\ Len(datas) = 1 /\ Len(datas[1].rows) = 1
         /\ datas[1].rows[1].isClosed = "True"
         /\ WorkList(p, datas) # <<>>
         /\ <<datas[1].code, p>> \notin DOMAIN bar_states)
            => \E i \in 1..Len(th'["t1"].to_publish) :
                    /\ th'["t1"].to_publish[i].is_closed
                    /\ th'["t1"].to_publish[i].bar_end_ts
                            = Head(WorkList(p, datas)).bar_dt
      ]_vars

\* ------------------------------------------------------------------------
\* The engine with one key added and removed while one dispatch thread
\* delivers callbacks
\* ------------------------------------------------------------------------
ChurnBatches ==
    BatchesOf({"A"}, PlainRows, PlainRows)

ChurnFeed ==
    \/ \E p \in Periods, datas \in ChurnBatches : OnDatas("t1", p, datas, MaxChurn)
    \/ HandleRow("t1")
    \/ PublishCheck("t1")
    \/ PublishSend("t1")

ChurnControl ==
    \/ Control
    \/ \E periods \in PeriodLists, failed \in SUBSET Keys :
            RemoveSubscription(<<"A">>, periods, failed)

ChurnNext ==
    ChurnFeed \/ ChurnControl

SpecChurn ==
    Init /\ [][ChurnNext]_vars

\* C2: in close_only mode no (code, period, bar_end_ts) is published more
\* than once, also after dedup evictions and after a key is removed and added
C2_NoDuplicate ==
    cfg.mode = "close_only" =>
        \A i \in 1..Len(published), j \in 1..Len(published) :
            (KeyOf(published[i]) = KeyOf(published[j])
                /\ published[i].bar_end_ts = published[j].bar_end_ts)
                    => i = j

\* ------------------------------------------------------------------------
\* The engine with two codes added, preloaded and removed while one dispatch
\* thread delivers callbacks that may bundle both codes
\* ------------------------------------------------------------------------
BundleBatches ==
    BatchesOf(Codes, PlainRows, PlainRows)

BundleFeed ==
    \/ \E p \in Periods, datas \in BundleBatches : OnDatas("t1", p, datas, MaxBundle)
    \/ HandleRow("t1")
    \/ PublishCheck("t1")
    \/ PublishSend("t1")

BundleControl ==
    \/ \E codes \in CodeLists, periods \in PeriodLists, n \in 0..2 :
            AddSubscription(codes, periods, n)
    \/ \E codes \in CodeLists, periods \in PeriodLists :
            AddSubscriptionPreload(codes, periods)
    \/ \E n \in 0..2 : PreloadReturn(n)
    \/ \E codes \in CodeLists, periods \in PeriodLists, failed \in SUBSET Keys :
            RemoveSubscription(codes, periods, failed)

BundleNext ==
    BundleFeed \/ BundleControl

SpecBundle ==
    Init /\ [][BundleNext]_vars

\* the keys of the add_subscription call in progress that are not yet active
Preloading ==
    IF ctl.pc = "preload"
    THEN Range(KeyList(ctl.codes, ctl.periods)) \ subs
    ELSE {}

\* C10: no raw event is fed into the state machine of a key while the
\* preload of the add_subscription call for that key has not returned
C10_PreloadThenActivate ==
    [][\A key \in Preloading :
            StateOf(bar_states', key) = StateOf(bar_states, key)]_vars

\* ------------------------------------------------------------------------
\* Two engines fed the same rows with different vendor flags, one dispatch
\* thread: each callback is run to its end
\* ------------------------------------------------------------------------
\* _handle_bar_update, lines 526-527: every payload of to_publish goes
\* through _publish_payload
RECURSIVE PublishAll(_, _, _, _)
PublishAll(eng, mode, dmax, to_publish) ==
    IF to_publish = <<>> THEN eng
    ELSE
        LET payload == Head(to_publish)
            key == <<payload.code, payload.period>>
            d == IsDupAndMark(eng.dedup_set, eng.dedup_q, dmax,
                              DedupKey(mode, payload))
            next ==
                IF Skipped(mode, payload) THEN eng
                ELSE IF d.dup THEN eng
                ELSE [eng EXCEPT
                        !.dedup_set = d.dedup_set,
                        !.dedup_q = d.dedup_q,
                        !.published = Append(eng.published, Enriched(payload)),
                        !.last_pub_ts =
                            [k \in DOMAIN eng.last_pub_ts \cup {key} |->
                                IF k = key THEN Len(eng.published) + 1
                                ELSE eng.last_pub_ts[k]]]
        IN  PublishAll(next, mode, dmax, Tail(to_publish))

\* _on_datas, lines 474-475, with _handle_bar_update run to its end for
\* each row
RECURSIVE RunWork(_, _, _, _, _)
RunWork(eng, mode, dmax, period, work) ==
    IF work = <<>> THEN eng
    ELSE
        LET r == Head(work)
            res == HandleBarUpdate(eng.bar_states, mode, r.code, period,
                                   r.bar_dt, r.payload)
            handled == [eng EXCEPT !.bar_states = res.bar_states]
        IN  RunWork(PublishAll(handled, mode, dmax, res.to_publish),
                    mode, dmax, period, Tail(work))

\* the engine state as a record
ThisEngine ==
    [bar_states |-> bar_states, dedup_set |-> dedup_set, dedup_q |-> dedup_q,
     last_pub_ts |-> last_pub_ts, published |-> published,
     differs |-> FALSE]

TwinBatches ==
    BatchesOf({"A"}, RawRows, PlainRows)

\* the batch with the vendor flags fl, everything else the same
ReFlag(datas, fl) ==
    <<[code |-> datas[1].code,
       rows |-> [i \in 1..Len(datas[1].rows) |->
                    [datas[1].rows[i] EXCEPT !.isClosed = fl[i]]]]>>

\* _cb -> _on_datas, the whole callback, in this engine and in the twin;
\* the twin receives the rows with the vendor flags fl
TwinOnDatas(period, datas, fl) ==
    /\ th["t1"].pc = "idle"
    /\ \E k \in registered : k[2] = period
    /\ nev + RowCount(datas) <= MaxTwin
    /\ nev' = nev + RowCount(datas)
    /\ LET one == RunWork(ThisEngine, cfg.mode, DedupMax, period,
                          WorkList(period, datas))
           other == RunWork(twin, cfg.mode, DedupMax, period,
                            WorkList(period, ReFlag(datas, fl)))
       IN  /\ bar_states' = one.bar_states
           /\ dedup_set' = one.dedup_set
           /\ dedup_q' = one.dedup_q
           /\ last_pub_ts' = one.last_pub_ts
           /\ published' = one.published
           /\ twin' = [other EXCEPT
                        !.differs = twin.differs \/ ReFlag(datas, fl) # datas]
    /\ UNCHANGED <<cfg, subs, registered, th, ctl, quotes, plane, bus, runtime>>

TwinFeed ==
    \E p \in Periods, datas \in TwinBatches :
        \E fl \in [1..Len(datas[1].rows) -> Flags] : TwinOnDatas(p, datas, fl)

TwinControl ==
    Control

TwinNext ==
    TwinFeed \/ TwinControl

SpecTwin ==
    Init /\ [][TwinNext]_vars

Strip(x) ==
    CASE x = " " -> ""
      [] x = " A " -> "A"
      [] x = " s1 " -> "s1"
      [] OTHER -> x

\* [str(x).strip() for x in (cmd.get(..) or []) if str(x).strip()]
Trimmed(xs) ==
    SelectSeq([i \in 1..Len(xs) |-> Strip(xs[i])], LAMBDA y : y # "")

\* the fields of the commands as sent: a blank strategy_id and a list of
\* blanks are trimmed to the defaults of an absent field
RawStrategies == {" ", " s1 ", "s2"}

RawCodeLists == {<<" ">>, <<"A">>, <<" A ", "B">>}

\* the sets of keys whose unsubscribe_quote raises
FailedSets == {{}, {<<"A", "1m">>}}

RawPeriodLists == {<<>>, <<"1m">>}

PreloadDays == {0, 3}

\* the sub_ids a command can name: none, or one gen_sub_id has made or will
SubIds == 0..MaxCmds

\* Registry._encode_mapping: lists become JSON text, the rest str()
EncodeMapping(spec) ==
    [strategy_id |-> spec.strategy_id,
     codes |-> <<"json", spec.codes>>,
     periods |-> <<"json", spec.periods>>,
     mode |-> spec.mode,
     preload_days |-> <<"str", spec.preload_days>>]

\* Registry._decode_mapping: codes and periods are parsed back
DecodeMapping(d) ==
    [d EXCEPT !.codes = IF d.codes[1] = "json" THEN d.codes[2] ELSE d.codes,
              !.periods = IF d.periods[1] = "json" THEN d.periods[2]
                          ELSE d.periods]

\* Registry.save
Save(reg, sub_id, spec) ==
    [subs |-> reg.subs \cup {sub_id},
     sub |-> [s \in DOMAIN reg.sub \cup {sub_id} |->
                 IF s = sub_id THEN EncodeMapping(spec) ELSE reg.sub[s]],
     strategy_subs |-> reg.strategy_subs \cup {<<spec.strategy_id, sub_id>>}]

\* Registry.delete without the srem on the strategy's set
Delete_KeepStrategySet(reg, sub_id) ==
    [subs |-> reg.subs \ {sub_id},
     sub |-> [s \in DOMAIN reg.sub \ {sub_id} |-> reg.sub[s]],
     strategy_subs |-> reg.strategy_subs]

\* Registry.delete without the delete of the hash
Delete_KeepHash(reg, sub_id) ==
    [subs |-> reg.subs \ {sub_id},
     sub |-> reg.sub,
     strategy_subs |->
        IF sub_id \in DOMAIN reg.sub
        THEN reg.strategy_subs \ {<<reg.sub[sub_id].strategy_id, sub_id>>}
        ELSE reg.strategy_subs]

\* Registry.delete
Delete(reg, sub_id) ==
    [subs |-> reg.subs \ {sub_id},
     sub |-> [s \in DOMAIN reg.sub \ {sub_id} |-> reg.sub[s]],
     strategy_subs |->
        IF sub_id \in DOMAIN reg.sub
        THEN reg.strategy_subs \ {<<reg.sub[sub_id].strategy_id, sub_id>>}
        ELSE reg.strategy_subs]

\* Registry.load finds a hash for sub_id
Found(reg, sub_id) ==
    sub_id \in DOMAIN reg.sub

\* Registry.load
Load(reg, sub_id) ==
    DecodeMapping(reg.sub[sub_id])

\* an allowlist that is never consulted
Allowed_Always(strategy_id) ==
    TRUE

\* ControlPlane._allowed
Allowed(strategy_id) ==
    accept = {} \/ strategy_id \in accept

\* the channel of an ACK: strategy_id or "unknown"
AckChannel(strategy_id) ==
    IF strategy_id = "" THEN "unknown" ELSE strategy_id

\* the payloads ControlPlane._ack publishes, with the channel they go to
Nack(ch, error) ==
    [ch |-> ch, ok |-> FALSE, action |-> "", error |-> error,
     sub_id |-> None, codes |-> <<>>, periods |-> <<>>, status |-> {},
     subs |-> {}]

SubscribeAck(ch, sub_id, codes, periods) ==
    [ch |-> ch, ok |-> TRUE, action |-> "subscribe", error |-> "",
     sub_id |-> sub_id, codes |-> codes, periods |-> periods, status |-> {},
     subs |-> {}]

UnsubscribeAck(ch, codes, periods) ==
    [ch |-> ch, ok |-> TRUE, action |-> "unsubscribe", error |-> "",
     sub_id |-> None, codes |-> codes, periods |-> periods, status |-> {},
     subs |-> {}]

StatusAck(ch, st, ids) ==
    [ch |-> ch, ok |-> TRUE, action |-> "status", error |-> "",
     sub_id |-> None, codes |-> <<>>, periods |-> <<>>, status |-> st,
     subs |-> ids]

\* the outcomes of _preload_history for `days' days: it is not called, it
\* completes, or both the cache and the direct download raise
PreloadOutcomes(days) ==
    IF days > 0 THEN {"done", "failed"} ELSE {"skipped"}

\* add_subscription raises: subscribe_quote fails at the n-th new key
Raises(codes, periods, n) ==
    /\ n # 0
    /\ Cardinality(Registered(KeyList(codes, periods), subs, 0)) >= n

SubscribeCmds ==
    [strategy_id : RawStrategies, codes : RawCodeLists,
     periods : RawPeriodLists, preload_days : PreloadDays]

UnsubscribeCmds ==
    [strategy_id : RawStrategies, codes : RawCodeLists,
     periods : RawPeriodLists, sub_id : SubIds]

\* a subscribe command stopped at lines 75-78 or 84-86
Rejected(cmd) ==
    \/ Strip(cmd.strategy_id) = ""
    \/ ~Allowed(Strip(cmd.strategy_id))
    \/ Trimmed(cmd.codes) = <<>>
    \/ Trimmed(cmd.periods) = <<>>

\* ControlPlane._handle_subscribe; `pre' is the outcome of the preload,
\* which _preload_history logs and swallows, and n the new key at which
\* subscribe_quote raises (0: none)
HandleSubscribe(cmd, pre, n) ==
    LET strategy_id == Strip(cmd.strategy_id)
        codes == Trimmed(cmd.codes)
        periods == Trimmed(cmd.periods)
        sub_id == ncmd + 1
        spec == [strategy_id |-> strategy_id, codes |-> codes,
                 periods |-> periods, mode |-> cfg.mode,
                 preload_days |-> cmd.preload_days]
        saved == Save(registry, sub_id, spec)
    IN
    /\ ctl.pc = "idle"
    /\ ncmd < MaxCmds
    /\ ncmd' = ncmd + 1
    /\ pre \in PreloadOutcomes(cmd.preload_days)
    /\ IF strategy_id = "" \/ ~Allowed(strategy_id)
       THEN /\ acks' = Append(acks, Nack(AckChannel(strategy_id),
                                         "strategy not allowed"))
            /\ UNCHANGED <<registry, subs, registered, quotes, ctl>>
       ELSE IF codes = <<>> \/ periods = <<>>
       THEN /\ acks' = Append(acks, Nack(strategy_id,
                                         "codes/periods required"))
            /\ UNCHANGED <<registry, subs, registered, quotes, ctl>>
       ELSE /\ RegisterKeys(codes, periods, n)
            /\ IF Raises(codes, periods, n)
               THEN /\ registry' = Delete(saved, sub_id)
                    /\ acks' = Append(acks,
                            Nack(strategy_id,
                                 "subscribe failed: subscribe_quote"))
               ELSE /\ registry' = saved
                    /\ acks' = Append(acks,
                            SubscribeAck(strategy_id, sub_id, codes, periods))
    /\ UNCHANGED <<cfg, engine, th, nev, twin, accept, bus, runtime>>

\* ControlPlane._handle_unsubscribe; `failed' are the keys whose
\* unsubscribe_quote raises
HandleUnsubscribe(cmd, failed) ==
    LET strategy_id == Strip(cmd.strategy_id)
        ch == AckChannel(strategy_id)
        by_id == cmd.sub_id # None
        codes ==
            IF by_id /\ Found(registry, cmd.sub_id)
                     /\ Trimmed(cmd.codes) = <<>>
            THEN Load(registry, cmd.sub_id).codes ELSE Trimmed(cmd.codes)
        periods ==
            IF by_id /\ Found(registry, cmd.sub_id)
                     /\ Trimmed(cmd.periods) = <<>>
            THEN Load(registry, cmd.sub_id).periods ELSE Trimmed(cmd.periods)
        deleted ==
            IF by_id THEN Delete(registry, cmd.sub_id) ELSE registry
    IN
    /\ ctl.pc = "idle"
    /\ ncmd < MaxCmds
    /\ ncmd' = ncmd + 1
    /\ IF by_id /\ ~Found(registry, cmd.sub_id)
       THEN /\ acks' = Append(acks, Nack(ch, "sub_id not found"))
            /\ UNCHANGED <<registry, subs, registered, quotes, bar_states>>
       ELSE IF codes = <<>> \/ periods = <<>>
       THEN /\ registry' = deleted
            /\ acks' = Append(acks, Nack(ch, "codes/periods required"))
            /\ UNCHANGED <<subs, registered, quotes, bar_states>>
       ELSE /\ registry' = deleted
            /\ RemoveKeys(codes, periods, failed)
            /\ acks' = Append(acks, UnsubscribeAck(ch, codes, periods))
    /\ UNCHANGED <<cfg, dedup_set, dedup_q, last_pub_ts, published, th, ctl,
                   nev, twin, accept, bus, runtime>>

\* ControlPlane._handle_status; status() and list_all() return sorted
\* lists, which the sets stand for
HandleStatus(cmd) ==
    /\ ctl.pc = "idle"
    /\ ncmd < MaxCmds
    /\ ncmd' = ncmd + 1
    /\ acks' = Append(acks, StatusAck(AckChannel(Strip(cmd.strategy_id)),
                                      subs, registry.subs))
    /\ UNCHANGED <<cfg, subs, registered, quotes, engine, th, ctl, nev, twin,
                   accept, registry, bus, runtime>>

\* the configuration of the bridge the ControlPlane runs in
PlaneCfg ==
    [mode |-> "close_only", dedup_max_size |-> MaxDedup]

PlaneInit ==
    /\ accept \in {{}, {"s1"}}
    /\ health_thr = NewHealthReporter(50, 200)
    /\ InitWith(PlaneCfg)

PlaneNext ==
    \/ \E cmd \in SubscribeCmds, pre \in {"skipped", "done", "failed"},
          n \in 0..2 : HandleSubscribe(cmd, pre, n)
    \/ \E cmd \in UnsubscribeCmds, failed \in FailedSets :
          HandleUnsubscribe(cmd, failed)
    \/ \E s \in RawStrategies : HandleStatus([strategy_id |-> s])

SpecPlane ==
    PlaneInit /\ [][PlaneNext]_vars

\* the last ACK published
LastAck ==
    acks[Len(acks)]

\* C11: when the history preload of a subscribe command's add_subscription
\* fails, the keys are not activated, the Registry entry the ControlPlane
\* wrote is deleted, and one NACK is published instead of an ok:true ACK
C11_PreloadFailureSurfaces ==
    [][\A cmd \in SubscribeCmds, n \in 0..2 :
          (~Rejected(cmd) /\ HandleSubscribe(cmd, "failed", n))
              => /\ subs' = subs
                 /\ registry' = registry
                 /\ acks' = Append(acks, LastAck')
                 /\ ~LastAck'.ok]_vars

\* sub_id is in <p>:subs, <p>:sub:<sub_id> exists and sub_id is in
\* <p>:strategy:<strategy_id>:subs
InAllThree(reg, sub_id, strategy_id) ==
    /\ sub_id \in reg.subs
    /\ sub_id \in DOMAIN reg.sub
    /\ <<strategy_id, sub_id>> \in reg.strategy_subs

\* none of the three key families holds sub_id
InNone(reg, sub_id) ==
    /\ sub_id \notin reg.subs
    /\ sub_id \notin DOMAIN reg.sub
    /\ \A pair \in reg.strategy_subs : pair[2] # sub_id

\* C12: right after a subscribe command is ACKed ok:true its sub_id is in
\* all three key families of the Registry, and right after an unsubscribe
\* command for a sub_id is ACKed ok:true none of the three holds it
C12_RegistryConsistency ==
    [][(ncmd' = ncmd + 1 /\ LastAck'.ok)
          => /\ LastAck'.action = "subscribe"
                    => InAllThree(registry', LastAck'.sub_id, LastAck'.ch)
             /\ LastAck'.action = "unsubscribe"
                    => \A cmd \in UnsubscribeCmds, failed \in FailedSets :
                          (cmd.sub_id # None /\ HandleUnsubscribe(cmd, failed))
                              => InNone(registry', cmd.sub_id)]_vars

\* a subscribe was ACKed ok:true and an unsubscribe by its sub_id, ACKed
\* ok:true, has emptied the Registry again
C12_Witness ==
    /\ Len(acks) = 2
    /\ acks[1].ok /\ acks[1].action = "subscribe"
    /\ acks[2].ok /\ acks[2].action = "unsubscribe"
    /\ registry = NewRegistry

\* C13: when add_subscription raises during a subscribe command, the
\* Registry (all three key families) is afterwards what it was before the
\* command, and exactly one ACK is published, ok:false with error
\* 'subscribe failed: <msg>'
C13_FailedSubscribeRollsBack ==
    [][ncmd' = ncmd + 1
          => \A cmd \in SubscribeCmds, n \in 1..2 :
                (/\ ~Rejected(cmd)
                 /\ Raises(Trimmed(cmd.codes), Trimmed(cmd.periods), n)
                 /\ \E pre \in PreloadOutcomes(cmd.preload_days) :
                       HandleSubscribe(cmd, pre, n))
                    => /\ registry' = registry
                       /\ acks' = Append(acks,
                                Nack(Strip(cmd.strategy_id),
                                     "subscribe failed: subscribe_quote"))]_vars

\* a subscribe command has failed in the engine after an earlier one had
\* been saved, and the Registry holds the earlier one alone
C13_Witness ==
    /\ Len(acks) = 2
    /\ acks[1].ok /\ acks[1].action = "subscribe"
    /\ acks[2] = Nack(acks[2].ch, "subscribe failed: subscribe_quote")
    /\ registry.subs = {acks[1].sub_id}
    /\ DOMAIN registry.sub = {acks[1].sub_id}
    /\ registry.strategy_subs = {<<acks[1].ch, acks[1].sub_id>>}

\* C14: right after an unsubscribe command is ACKed ok:true, none of the
\* keys in the ACK's codes x periods is in the engine's active set, also
\* when the vendor's unsubscribe call fails for some key
C14_UnsubscribedKeysInactive ==
    [][(ncmd' = ncmd + 1 /\ LastAck'.ok /\ LastAck'.action = "unsubscribe")
          => Range(KeyList(LastAck'.codes, LastAck'.periods)) \cap subs' = {}]_vars

SpecKeys(reg, sub_id) ==
    Range(KeyList(Load(reg, sub_id).codes, Load(reg, sub_id).periods))

\* C16: when an unsubscribe command names a sub_id the Registry holds and
\* also carries codes and/or periods, the sub_id takes precedence: with
\* the vendor's unsubscribe calls succeeding, the keys removed from the
\* active set are exactly the codes x periods of the stored spec, and none
\* of them remains active
C16_SubIdTakesPrecedence ==
    [][ncmd' = ncmd + 1
          => \A cmd \in UnsubscribeCmds :
                (/\ cmd.sub_id # None
                 /\ Found(registry, cmd.sub_id)
                 /\ Trimmed(cmd.codes) # <<>> \/ Trimmed(cmd.periods) # <<>>
                 /\ HandleUnsubscribe(cmd, {}))
                    => /\ subs' = subs \ SpecKeys(registry, cmd.sub_id)
                       /\ SpecKeys(registry, cmd.sub_id) \cap subs' = {}]_vars

\* the vendor holds one subscribe_quote registration for each active key
\* and none for the others
OneQuotePerKey ==
    \A k \in Keys : quotes[k] = IF k \in subs THEN 1 ELSE 0

\* C17: add_subscription is idempotent: a call for codes x periods that are
\* all active already (as after an earlier call for the same X) skips
\* every key, leaving the active-key set and the vendor registrations as
\* they were, one subscribe_quote per key
C17_AddIdempotent ==
    /\ []OneQuotePerKey
    /\ [][ncmd' = ncmd + 1
             => \A cmd \in SubscribeCmds :
                   (/\ ~Rejected(cmd)
                    /\ Range(KeyList(Trimmed(cmd.codes), Trimmed(cmd.periods)))
                          \subseteq subs
                    /\ \E pre \in PreloadOutcomes(cmd.preload_days),
                          n \in 0..2 : HandleSubscribe(cmd, pre, n))
                       => UNCHANGED <<subs, registered, quotes>>]_vars

\* add_subscription has returned twice for the same codes x periods
C17_Witness ==
    /\ Len(acks) = 2
    /\ acks[1].ok /\ acks[1].action = "subscribe"
    /\ acks[2].ok /\ acks[2].action = "subscribe"
    /\ acks[1].codes = <<"A", "B">> /\ acks[2].codes = acks[1].codes
    /\ acks[2].periods = acks[1].periods
    /\ subs = Keys
    /\ \A k \in Keys : quotes[k] = 1

\* C18: add(X); remove(X); add(X) leaves the engine as a single add(X)
\* does: whenever the key of X is active with no BarState and no callback
\* or call in progress, as after a single add(X), it has its one vendor
\* registration and the dedup structure holds no fingerprint, whatever
\* events were processed while the key was active before
C18_ReAddLikeSingleAdd ==
    (/\ subs = {<<"A", "1m">>}
     /\ <<"A", "1m">> \notin DOMAIN bar_states
     /\ \A t \in Threads : th[t].pc = "idle"
     /\ ctl.pc = "idle")
        => /\ registered = subs
           /\ quotes[<<"A", "1m">>] = 1
           /\ dedup_set = {}
           /\ dedup_q = <<>>

\* ------------------------------------------------------------------------
\* PubSubPublisher.publish: one call at a time, each bus attempt a step
\* ------------------------------------------------------------------------

\* publish(payload, max_retries) is called, lines 51-58; range(0) is empty
\* and the call returns at once
Publish(max_retries) ==
    /\ publisher.pc # "trying"
    /\ metrics.published + metrics.publish_fail < MaxBus
    /\ publisher' = [pc |-> IF max_retries = 0 THEN "returned" ELSE "trying",
                     max_retries |-> max_retries, i |-> 0, attempts |-> 0,
                     fails |-> 0, before |-> metrics]
    /\ UNCHANGED <<cfg, subs, registered, engine, th, ctl, nev, twin, quotes,
                   plane, metrics, runtime>>

\* publish without the `return' after a successful attempt
Attempt_NoReturn(ok) ==
    /\ publisher.pc = "trying"
    /\ metrics' = IF ok
                  THEN [metrics EXCEPT !.published = @ + 1,
                                       !.bars_published_total = @ + 1]
                  ELSE [metrics EXCEPT !.publish_fail = @ + 1]
    /\ publisher' = [publisher EXCEPT
            !.attempts = @ + 1,
            !.fails = IF ok THEN @ ELSE @ + 1,
            !.i = IF publisher.i = publisher.max_retries - 1 THEN @ ELSE @ + 1,
            !.pc = IF publisher.i = publisher.max_retries - 1
                   THEN (IF ok THEN "returned" ELSE "raised") ELSE "trying"]
    /\ UNCHANGED <<cfg, subs, registered, engine, th, ctl, nev, twin, quotes,
                   plane, runtime>>

\* publish with inc_publish_fail moved under `if i == max_retries - 1'
Attempt_CountExhaustedOnly(ok) ==
    /\ publisher.pc = "trying"
    /\ metrics' = IF ok
                  THEN [metrics EXCEPT !.published = @ + 1,
                                       !.bars_published_total = @ + 1]
                  ELSE IF publisher.i = publisher.max_retries - 1
                  THEN [metrics EXCEPT !.publish_fail = @ + 1]
                  ELSE metrics
    /\ publisher' = [publisher EXCEPT
            !.attempts = @ + 1,
            !.fails = IF ok THEN @ ELSE @ + 1,
            !.i = IF ok \/ publisher.i = publisher.max_retries - 1
                  THEN @ ELSE @ + 1,
            !.pc = IF ok THEN "returned"
                   ELSE IF publisher.i = publisher.max_retries - 1
                   THEN "raised" ELSE "trying"]
    /\ UNCHANGED <<cfg, subs, registered, engine, th, ctl, nev, twin, quotes,
                   plane, runtime>>

\* publish with inc_publish_fail moved after the `raise', so that the last
\* failed attempt is not counted
Attempt_CountRetriedOnly(ok) ==
    /\ publisher.pc = "trying"
    /\ metrics' = IF ok
                  THEN [metrics EXCEPT !.published = @ + 1,
                                       !.bars_published_total = @ + 1]
                  ELSE IF publisher.i = publisher.max_retries - 1
                  THEN metrics
                  ELSE [metrics EXCEPT !.publish_fail = @ + 1]
    /\ publisher' = [publisher EXCEPT
            !.attempts = @ + 1,
            !.fails = IF ok THEN @ ELSE @ + 1,
            !.i = IF ok \/ publisher.i = publisher.max_retries - 1
                  THEN @ ELSE @ + 1,
            !.pc = IF ok THEN "returned"
                   ELSE IF publisher.i = publisher.max_retries - 1
                   THEN "raised" ELSE "trying"]
    /\ UNCHANGED <<cfg, subs, registered, engine, th, ctl, nev, twin, quotes,
                   plane, runtime>>

\* one pass of the loop, lines 59-68: the bus accepts the message (ok) or
\* raises
Attempt(ok) ==
    /\ publisher.pc = "trying"
    /\ metrics' = IF ok
                  THEN [metrics EXCEPT !.published = @ + 1,
                                       !.bars_published_total = @ + 1]
                  ELSE [metrics EXCEPT !.publish_fail = @ + 1]
    /\ publisher' = [publisher EXCEPT
            !.attempts = @ + 1,
            !.fails = IF ok THEN @ ELSE @ + 1,
            !.i = IF ok \/ publisher.i = publisher.max_retries - 1
                  THEN @ ELSE @ + 1,
            !.pc = IF ok THEN "returned"
                   ELSE IF publisher.i = publisher.max_retries - 1
                   THEN "raised" ELSE "trying"]
    /\ UNCHANGED <<cfg, subs, registered, engine, th, ctl, nev, twin, quotes,
                   plane, runtime>>

PublisherInit ==
    /\ accept = {}
    /\ health_thr = NewHealthReporter(50, 200)
    /\ InitWith(PlaneCfg)

PublisherNext ==
    \/ \E max_retries \in 0..MaxRetries : Publish(max_retries)
    \/ \E ok \in BOOLEAN : Attempt(ok)

SpecPublisher ==
    PublisherInit /\ [][PublisherNext]_vars

\* C19: publish makes at most max_retries attempts on the bus, stops at the
\* first attempt that succeeds, returning with published incremented by
\* exactly 1, and raises only after exactly max_retries consecutive failed
\* attempts
C19_RetryUpToMax ==
    /\ [](/\ publisher.attempts <= publisher.max_retries
          /\ publisher.pc = "trying"
                => /\ publisher.attempts = publisher.fails
                   /\ metrics.published = publisher.before.published
          /\ (publisher.pc = "returned" /\ publisher.attempts > 0)
                => /\ publisher.attempts = publisher.fails + 1
                   /\ metrics.published = publisher.before.published + 1
          /\ publisher.pc = "raised"
                => /\ publisher.fails = publisher.max_retries
                   /\ publisher.attempts = publisher.max_retries
                   /\ metrics.published = publisher.before.published)
    /\ [][publisher.pc \in {"returned", "raised"}
             => publisher'.attempts = 0]_vars

\* a call with max_retries = 3 has returned at its second attempt
C19_Witness ==
    /\ publisher.pc = "returned"
    /\ publisher.max_retries = 3
    /\ publisher.fails = 1
    /\ publisher.attempts = 2

\* C20 as stated: publish_fail is incremented only when a publish exhausts
\* its retries, so a publish that succeeds after failed attempts leaves
\* published one higher and publish_fail as it was
C20_FailCountsExhaustedOnly ==
    (publisher.pc = "returned" /\ publisher.attempts > 0)
        => /\ metrics.published = publisher.before.published + 1
           /\ metrics.publish_fail = publisher.before.publish_fail

\* C20, amended: publish_fail is incremented at every failed attempt: a
\* publish that succeeds after k failed attempts leaves published one
\* higher and publish_fail k higher (first two attempts fail, third
\* succeeds: published = 1, publish_fail = 2)
C20_FailCountsEveryAttempt ==
    (publisher.pc = "returned" /\ publisher.attempts > 0)
        => /\ metrics.published = publisher.before.published + 1
           /\ metrics.publish_fail
                = publisher.before.publish_fail + publisher.fails

\* the first publish of a new publisher has failed twice and succeeded at
\* its third attempt
C20_Witness ==
    /\ publisher.pc = "returned"
    /\ publisher.before = NewMetrics
    /\ publisher.fails = 2
    /\ publisher.attempts = 3
    /\ metrics.published = 1
    /\ metrics.publish_fail = 2

\* C21: publish_fail counts every failed publish attempt: at every point
\* of a call it is higher than at the call's start by the attempts that
\* failed, so a call whose max_retries = 3 attempts all fail raises with
\* publish_fail 3 higher
C21_FailCountsAllOfExhausted ==
    /\ publisher.pc \in {"trying", "raised"}
          => metrics.publish_fail
                = publisher.before.publish_fail + publisher.attempts
    /\ publisher.pc = "raised"
          => metrics.publish_fail
                = publisher.before.publish_fail + publisher.max_retries

\* the first publish of a new publisher has raised after three failed
\* attempts
C21_Witness ==
    /\ publisher.pc = "raised"
    /\ publisher.before = NewMetrics
    /\ publisher.max_retries = 3
    /\ publisher.attempts = 3
    /\ metrics.publish_fail = 3
    /\ metrics.published = 0

\* ------------------------------------------------------------------------
\* Faults inside one vendor callback: a row that is no dict, a row without
\* close, a publisher that raises.  _cb runs _on_datas as a whole and
\* catches what it raises (lines 426-430)
\* ------------------------------------------------------------------------

\* a row that is not a dict (None, a string, a list): row.get raises in
\* _build_payload_from_row
MalformedRow ==
    [time |-> [k |-> "nodict", v |-> 0], close |-> None, isClosed |-> "None"]

\* rows with and without a close field, with a +08:00 time or none
FaultRows ==
    {r \in RowsOf({None} \cup Closes) :
        r.time.k \in {"cn", "none"} /\ r.isClosed = "None"}

FaultBatches ==
    BatchesOf(Codes, FaultRows \cup {MalformedRow},
              FaultRows \cup {MalformedRow})

\* the items of datas whose rows are normalised before row.get raises: the
\* loop over rows, lines 454-468, ends a code's rows before any is handled
RECURSIVE BeforeMalformed(_)
BeforeMalformed(datas) ==
    IF datas = <<>> THEN <<>>
    ELSE IF \E i \in DOMAIN Head(datas).rows : Head(datas).rows[i] = MalformedRow
    THEN <<>>
    ELSE <<Head(datas)>> \o BeforeMalformed(Tail(datas))

\* datas without its bad rows: the rows that are no dict and the rows whose
\* time _normalize_bar_end_ts cannot read
RECURSIVE WithoutBadRows(_)
WithoutBadRows(datas) ==
    IF datas = <<>> THEN <<>>
    ELSE <<[code |-> Head(datas).code,
            rows |-> SelectSeq(Head(datas).rows,
                               LAMBDA r : /\ r # MalformedRow
                                          /\ NormalizeBarEndTs(r.time) # None)]>>
            \o WithoutBadRows(Tail(datas))

\* the loop of _handle_bar_update over to_publish, line 526-527, up to the
\* publish call that raises: st.calls counts the calls of
\* publisher.publish in this callback, the fail-th of which raises
\* (0: none); the fingerprint is marked before the call, _last_pub_ts is
\* written after it
RECURSIVE PublishUntil(_, _, _, _, _)
PublishUntil(st, mode, dmax, to_publish, fail) ==
    IF to_publish = <<>> \/ st.raised THEN st
    ELSE
        LET payload == Head(to_publish)
            key == <<payload.code, payload.period>>
            eng == st.eng
            d == IsDupAndMark(eng.dedup_set, eng.dedup_q, dmax,
                              DedupKey(mode, payload))
            handed == [eng EXCEPT
                        !.dedup_set = d.dedup_set,
                        !.dedup_q = d.dedup_q,
                        !.published = Append(eng.published, Enriched(payload))]
            next ==
                IF Skipped(mode, payload) THEN st
                ELSE IF d.dup THEN st
                ELSE IF st.calls + 1 = fail
                THEN [eng |-> handed, calls |-> st.calls + 1, raised |-> TRUE]
                ELSE [eng |-> [handed EXCEPT
                                !.last_pub_ts =
                                    [k \in DOMAIN eng.last_pub_ts \cup {key} |->
                                        IF k = key THEN Len(eng.published) + 1
                                        ELSE eng.last_pub_ts[k]]],
                      calls |-> st.calls + 1, raised |-> FALSE]
        IN  PublishUntil(next, mode, dmax, Tail(to_publish), fail)

\* _on_datas, lines 474-475, up to the exception that leaves it
RECURSIVE RunWorkUntil(_, _, _, _, _, _)
RunWorkUntil(st, mode, dmax, period, work, fail) ==
    IF work = <<>> \/ st.raised THEN st
    ELSE
        LET r == Head(work)
            res == HandleBarUpdate(st.eng.bar_states, mode, r.code, period,
                                   r.bar_dt, r.payload)
            handled == [st EXCEPT !.eng.bar_states = res.bar_states]
        IN  RunWorkUntil(PublishUntil(handled, mode, dmax, res.to_publish,
                                      fail),
                         mode, dmax, period, Tail(work), fail)

\* _cb -> _on_datas, the whole callback, with the publisher raising at its
\* fail-th call
FaultOnDatas(period, datas, fail) ==
    /\ th["t1"].pc = "idle"
    /\ \E k \in registered : k[2] = period
    /\ nev + RowCount(datas) <= MaxFault
    /\ nev' = nev + RowCount(datas)
    /\ LET done == RunWorkUntil(
                        [eng |-> ThisEngine, calls |-> 0, raised |-> FALSE],
                        cfg.mode, DedupMax, period,
                        WorkList(period, BeforeMalformed(datas)), fail).eng
       IN  /\ bar_states' = done.bar_states
           /\ dedup_set' = done.dedup_set
           /\ dedup_q' = done.dedup_q
           /\ last_pub_ts' = done.last_pub_ts
           /\ published' = done.published
    /\ UNCHANGED <<cfg, subs, registered, th, ctl, twin, quotes, plane, bus, runtime>>

FaultNext ==
    \/ \E p \in Periods, datas \in FaultBatches, fail \in 0..MaxFault :
            FaultOnDatas(p, datas, fail)
    \/ Control

SpecFault ==
    Init /\ [][FaultNext]_vars

\* C22: when the publisher raises for one bar, the engine drops only that
\* bar: every bar the callback hands to the publisher when nothing raises
\* is handed to it as well when one publish call raises
C22_OnlyFailedBarDropped ==
    [][nev' # nev
          => \A p \in Periods, datas \in FaultBatches, fail \in 1..MaxFault :
                (/\ nev' = nev + RowCount(datas)
                 /\ BeforeMalformed(datas) = datas
                 /\ FaultOnDatas(p, datas, fail))
                    => published' = RunWork(ThisEngine, cfg.mode, DedupMax, p,
                                            WorkList(p, datas)).published]_vars

\* C23: a bad row of a callback batch (no dict, or a time that cannot be
\* read) is dropped and the remaining rows of the batch, of the same code and
\* of the other codes, are processed exactly as if the bad row had not been
\* in the batch
C23_BadRowDroppedAlone ==
    [][nev' # nev
          => \A p \in Periods, datas \in FaultBatches :
                (/\ nev' = nev + RowCount(datas)
                 /\ FaultOnDatas(p, datas, 0))
                    => LET clean == RunWork(ThisEngine, cfg.mode, DedupMax, p,
                                            WorkList(p, WithoutBadRows(datas)))
                       IN  /\ published' = clean.published
                           /\ bar_states' = clean.bar_states]_vars

\* C24: no bar that fails the SchemaGuard contract is published: a bar fed
\* without a close field is never handed to the publisher
C24_NoBarWithoutClose ==
    \A i \in DOMAIN published : published[i].close # None

\* C25: every bar handed to the publisher carries a bar_open_ts equal to its
\* bar_end_ts minus the period length (times count minutes: 1 for 1m, 60 for
\* 1h, 1440 for 1d), on the +08:00 clock like bar_end_ts
C25_BarOpenTs ==
    \A i \in DOMAIN published :
        LET bar == published[i]
            period_length == CASE bar.period = "1m" -> 1
                               [] bar.period = "1h" -> 60
                               [] OTHER -> 1440
        IN  /\ "bar_open_ts" \in DOMAIN bar
            /\ bar.bar_open_ts = bar.bar_end_ts - period_length

\* ------------------------------------------------------------------------
\* HealthReporter: the loop of run (health.py 62-77), one step per action,
\* beside the publisher whose failures the bridge counts
\* ------------------------------------------------------------------------

\* while not self._stop_evt.is_set()
HealthCheck ==
    /\ health_thr.pc = "check"
    /\ health_thr' = [health_thr EXCEPT
                        !.pc = IF health_thr.stop_evt THEN "done" ELSE "write"]
    /\ UNCHANGED <<cfg, subs, registered, engine, th, ctl, nev, twin, quotes,
                   plane, bus, main, ctrl_thr, kv,
                   callers, feeder>>

\* a run whose failed write leaves the loop
HealthWrite_Raises(ok) ==
    /\ health_thr.pc = "write"
    /\ health_thr' = [health_thr EXCEPT
                        !.pc = IF ok THEN "wait" ELSE "dead",
                        !.last = IF ok THEN "ok" ELSE "fail"]
    /\ kv' = IF ok THEN [ttl |-> health_thr.ttl,
                         metrics |-> Snapshot(health_thr.metrics)]
             ELSE kv
    /\ UNCHANGED <<cfg, subs, registered, engine, th, ctl, nev, twin, quotes,
                   plane, bus, main, ctrl_thr,
                   callers, feeder>>

\* the payload with self.metrics.snapshot(), and self._cli.set(key, ...,
\* ex=self.ttl) inside try / except Exception: pass
HealthWrite(ok) ==
    /\ health_thr.pc = "write"
    /\ health_thr' = [health_thr EXCEPT
                        !.pc = "wait",
                        !.last = IF ok THEN "ok" ELSE "fail"]
    /\ kv' = IF ok THEN [ttl |-> health_thr.ttl,
                         metrics |-> Snapshot(health_thr.metrics)]
             ELSE kv
    /\ UNCHANGED <<cfg, subs, registered, engine, th, ctl, nev, twin, quotes,
                   plane, bus, main, ctrl_thr,
                   callers, feeder>>

\* self._stop_evt.wait(self.interval): returns at once when the event is set,
\* after interval seconds otherwise, during which the key ages
HealthWait ==
    /\ health_thr.pc = "wait"
    /\ health_thr' = [health_thr EXCEPT !.pc = "check"]
    /\ kv' = IF health_thr.stop_evt THEN kv
             ELSE [kv EXCEPT !.ttl = Max(0, kv.ttl - health_thr.interval)]
    /\ UNCHANGED <<cfg, subs, registered, engine, th, ctl, nev, twin, quotes,
                   plane, bus, main, ctrl_thr,
                   callers, feeder>>

\* HealthReporter.stop
HealthStop ==
    /\ ~health_thr.stop_evt
    /\ health_thr' = [health_thr EXCEPT !.stop_evt = TRUE]
    /\ UNCHANGED <<cfg, subs, registered, engine, th, ctl, nev, twin, quotes,
                   plane, bus, main, ctrl_thr, kv,
                   callers, feeder>>

\* run_from_config with configured interval_sec and ttl_sec, in tenths of a
\* second: negative, zero, fractional and whole numbers of seconds
HealthInit ==
    /\ accept = {}
    /\ \E interval_sec \in {0 - 10, 0, 5, 10, 25, 30},
          ttl_sec \in {0 - 10, 0, 20, 45, 70} :
            health_thr = NewHealthReporter(interval_sec, ttl_sec)
    /\ InitWith(PlaneCfg)

HealthStep ==
    \/ HealthCheck
    \/ \E ok \in BOOLEAN : HealthWrite(ok)
    \/ HealthWait

HealthNext ==
    \/ HealthStep
    \/ HealthStop
    \/ Publish(1)
    \/ \E ok \in BOOLEAN : Attempt(ok)

\* the thread is scheduled while it can run: set returns or raises, wait
\* returns after interval seconds at the latest
SpecHealth ==
    HealthInit /\ [][HealthNext]_vars /\ WF_vars(HealthStep)

\* C28: the loop attempts one write per interval for as long as stop() has
\* not been called, a failed write never prevents the writes of later ticks,
\* and after stop() the loop begins no further tick and the thread ends
C28_TicksUntilStop ==
    /\ []<>(health_thr.pc = "write" \/ health_thr.stop_evt)
    /\ (health_thr.last = "fail" /\ health_thr.pc = "wait")
            ~> (health_thr.pc = "write" \/ health_thr.stop_evt)
    /\ [][/\ (health_thr.pc = "write" /\ health_thr'.pc # "write")
                => health_thr'.pc = "wait"
          /\ (health_thr.pc # "write" /\ health_thr'.pc = "write")
                => (health_thr.pc = "check" /\ ~health_thr.stop_evt)]_vars
    /\ health_thr.stop_evt ~> (health_thr.pc = "done")

C28_Witness ==
    /\ health_thr.pc = "done" /\ health_thr.stop_evt
    /\ health_thr.last = "fail" /\ kv.ttl > 0

\* C29: for every configured interval_sec and ttl_sec the interval is at
\* least 1 second and the TTL at least twice the interval, so the key
\* written at one tick has not expired when the next tick writes it
C29_TtlCoversInterval ==
    /\ health_thr.interval >= 1
    /\ health_thr.ttl >= 2 * health_thr.interval
    /\ (health_thr.pc = "write" /\ health_thr.last = "ok") => kv.ttl > 0

C29_Witness ==
    /\ health_thr.pc = "write" /\ health_thr.last = "ok"
    /\ health_thr.interval = 3 /\ health_thr.ttl = 6 /\ kv.ttl = 3

\* C30: the heartbeat written after the publisher has recorded failures
\* carries the current publish_fail, and schema_drop_total and
\* late_bars_total
C30_HeartbeatShowsErrorCounters ==
    [][HealthWrite(TRUE)
          => /\ kv'.metrics.publish_fail = metrics.publish_fail
             /\ {"schema_drop_total", "late_bars_total"}
                    \subseteq DOMAIN kv'.metrics]_vars

\* ------------------------------------------------------------------------
\* The ControlPlane thread (control_plane.py 133-162) and the shutdown of
\* run_from_config (run_with_config.py 185-209)
\* ------------------------------------------------------------------------

\* self._ensure_pubsub() at the head of run and, after time.sleep(0.5),
\* after a disconnect: pubsub() and subscribe(channel) raise when the bus
\* is down, and nothing in run catches that
EnsurePubsub(ok) ==
    /\ ctrl_thr.pc \in {"start", "backoff"}
    /\ ctrl_thr' = [ctrl_thr EXCEPT !.pc = IF ok THEN "poll" ELSE "dead",
                                    !.pubsub = ok]
    /\ UNCHANGED <<cfg, subs, registered, engine, th, ctl, nev, twin, quotes,
                   plane, bus, main, health_thr, kv,
                   callers, feeder>>

\* get_message raises ConnectionError or OSError, which run catches
GetMessageFails ==
    /\ ctrl_thr.pc = "poll" /\ ~ctrl_thr.stop_evt
    /\ ctrl_thr' = [ctrl_thr EXCEPT !.pc = "backoff", !.pubsub = FALSE]
    /\ UNCHANGED <<cfg, subs, registered, engine, th, ctl, nev, twin, quotes,
                   plane, bus, main, health_thr, kv,
                   callers, feeder>>

\* get_message returns a command and its handler runs on a working bus
Deliver ==
    /\ ctrl_thr.pc = "poll" /\ ~ctrl_thr.stop_evt
    /\ PlaneNext

\* a subscribe command that passes lines 75-86 while the bus is down:
\* the first write of self._registry.save (line 92) raises, outside any try
\* of the handler and of run, before anything is stored
HandlerRaises(cmd) ==
    /\ ctrl_thr.pc = "poll" /\ ~ctrl_thr.stop_evt
    /\ ~Rejected(cmd)
    /\ ctrl_thr' = [ctrl_thr EXCEPT !.pc = "dead", !.pubsub = FALSE]
    /\ UNCHANGED <<cfg, subs, registered, engine, th, ctl, nev, twin, quotes,
                   plane, bus, main, health_thr, kv,
                   callers, feeder>>

\* get_message returns a message that is not a well-formed command, and run
\* processes it (lines 148-162, 74-82): json.loads raises on invalid JSON
\* and run continues; an object with an unknown action falls through to
\* `pass'; on JSON that is not an object data.get raises AttributeError
\* (line 153), and in a subscribe of an allowed strategy whose preload_days
\* is no integer int() raises ValueError or TypeError (line 82), neither
\* inside a try of the handler or of run
MalformedMessage(kind) ==
    /\ \/ /\ ctrl_thr.pc = "poll" /\ ~ctrl_thr.stop_evt
          /\ ctrl_thr' = [ctrl_thr EXCEPT !.pc = "got", !.msg = kind]
       \/ /\ ctrl_thr.pc = "got" /\ ctrl_thr.msg = kind
          /\ ctrl_thr' =
                IF kind \in {"invalid_json", "unknown_action"}
                THEN [ctrl_thr EXCEPT !.pc = "poll", !.msg = "none"]
                ELSE [ctrl_thr EXCEPT !.pc = "dead"]
    /\ UNCHANGED <<cfg, subs, registered, engine, th, ctl, nev, twin, quotes,
                   plane, bus, main, health_thr, kv,
                   callers, feeder>>

\* while not self._stop_evt.is_set()
LoopExit ==
    /\ ctrl_thr.pc = "poll" /\ ctrl_thr.stop_evt
    /\ ctrl_thr' = [ctrl_thr EXCEPT !.pc = "done"]
    /\ UNCHANGED <<cfg, subs, registered, engine, th, ctl, nev, twin, quotes,
                   plane, bus, main, health_thr, kv,
                   callers, feeder>>

\* svc.run_forever() ends and the finally clause calls svc.stop(), which
\* stops the mock feeder only (realtime_service.py 374-377)
SvcStop ==
    /\ main = "run_forever"
    /\ main' = "svc_stopped"
    /\ UNCHANGED <<cfg, subs, registered, engine, th, ctl, nev, twin, quotes,
                   plane, bus, ctrl_thr, health_thr, kv,
                   callers, feeder>>

\* ctrl_thr.stop() and join(timeout=1.0): the stop event, PubSub closed
CtrlStop ==
    /\ main = "svc_stopped"
    /\ main' = "ctrl_stopped"
    /\ ctrl_thr' = [ctrl_thr EXCEPT !.stop_evt = TRUE, !.pubsub = FALSE]
    /\ UNCHANGED <<cfg, subs, registered, engine, th, ctl, nev, twin, quotes,
                   plane, bus, health_thr, kv,
                   callers, feeder>>

\* health_thr.stop() and join(timeout=1.0)
HealthThrStop ==
    /\ main = "ctrl_stopped"
    /\ main' = "exit"
    /\ health_thr' = [health_thr EXCEPT !.stop_evt = TRUE]
    /\ UNCHANGED <<cfg, subs, registered, engine, th, ctl, nev, twin, quotes,
                   plane, bus, ctrl_thr, kv,
                   callers, feeder>>

LoopNext ==
    \/ \E ok \in BOOLEAN : EnsurePubsub(ok)
    \/ GetMessageFails
    \/ Deliver
    \/ \E cmd \in SubscribeCmds : HandlerRaises(cmd)
    \/ \E kind \in {"invalid_json", "unknown_action", "not_object",
                     "bad_preload_days"} : MalformedMessage(kind)
    \/ LoopExit
    \/ SvcStop
    \/ CtrlStop
    \/ HealthThrStop

SpecLoop ==
    PlaneInit /\ [][LoopNext]_vars

\* C26: after stop() on the engine has returned, every vendor subscription is
\* unregistered and the active-key set is empty, and when the shutdown is
\* over the ControlPlane and HealthReporter loops have been signalled to exit
C26_StopUnregistersAll ==
    /\ main # "run_forever"
            => /\ subs = {} /\ registered = {}
               /\ \A k \in Keys : quotes[k] = 0
    /\ main = "exit" => (ctrl_thr.stop_evt /\ health_thr.stop_evt)

\* C27: a bus failure met by the ControlPlane while polling, while
\* re-subscribing or inside a command handler does not end its loop: unless
\* stop() was called the thread keeps running
C27_BusFailureKeepsLoop ==
    ctrl_thr.pc \in {"dead", "done"} => ctrl_thr.stop_evt

\* ------------------------------------------------------------------------
\* Metrics.inc_published called by several threads (metrics.py 59-69,
\* 105-116): `x += step' is a read and a write, one step each
\* ------------------------------------------------------------------------

\* inc_published without self._lock and cls._global_lock
IncPublished_NoLock(t) ==
    LET c == callers[t] IN
    /\ \/ c.pc = "idle" /\ c.calls < MaxCalls
       \/ c.pc # "idle"
    /\ callers' = [callers EXCEPT ![t] =
            CASE c.pc = "idle" -> [c EXCEPT !.pc = "lock"]
              [] c.pc = "lock" ->
                    [c EXCEPT !.pc = "write", !.seen = metrics.published]
              [] c.pc = "write" -> [c EXCEPT !.pc = "global_lock"]
              [] c.pc = "global_lock" ->
                    [c EXCEPT !.pc = "global_write",
                              !.seen = metrics.bars_published_total]
              [] OTHER -> [c EXCEPT !.pc = "idle", !.calls = c.calls + 1]]
    /\ metrics' =
            CASE c.pc = "write" -> [metrics EXCEPT !.published = c.seen + 1]
              [] c.pc = "global_write" ->
                    [metrics EXCEPT !.bars_published_total = c.seen + 1]
              [] OTHER -> metrics
    /\ UNCHANGED <<cfg, subs, registered, engine, th, ctl, nev, twin, quotes,
                   plane, publisher, main, ctrl_thr, health_thr, kv, feeder>>

\* one step of inc_published(1) in thread t: enter `with self._lock' and read
\* the counter, write it and leave; then the same under cls._global_lock in
\* inc_global.  A lock is held by the thread that has read and not written
IncPublished(t) ==
    LET c == callers[t] IN
    /\ \/ c.pc = "idle" /\ c.calls < MaxCalls
       \/ c.pc = "lock" /\ \A u \in Threads : callers[u].pc # "write"
       \/ c.pc = "global_lock"
            /\ \A u \in Threads : callers[u].pc # "global_write"
       \/ c.pc \in {"write", "global_write"}
    /\ callers' = [callers EXCEPT ![t] =
            CASE c.pc = "idle" -> [c EXCEPT !.pc = "lock"]
              [] c.pc = "lock" ->
                    [c EXCEPT !.pc = "write", !.seen = metrics.published]
              [] c.pc = "write" -> [c EXCEPT !.pc = "global_lock"]
              [] c.pc = "global_lock" ->
                    [c EXCEPT !.pc = "global_write",
                              !.seen = metrics.bars_published_total]
              [] OTHER -> [c EXCEPT !.pc = "idle", !.calls = c.calls + 1]]
    /\ metrics' =
            CASE c.pc = "write" -> [metrics EXCEPT !.published = c.seen + 1]
              [] c.pc = "global_write" ->
                    [metrics EXCEPT !.bars_published_total = c.seen + 1]
              [] OTHER -> metrics
    /\ UNCHANGED <<cfg, subs, registered, engine, th, ctl, nev, twin, quotes,
                   plane, publisher, main, ctrl_thr, health_thr, kv, feeder>>

MetricsNext ==
    \E t \in Threads : IncPublished(t)

SpecMetrics ==
    PublisherInit /\ [][MetricsNext]_vars

\* C31: when the threads have made N calls of inc_published in total and none
\* is inside a call, published is exactly N and bars_published_total has
\* grown by exactly N
C31_NoLostUpdate ==
    (\A t \in Threads : callers[t].pc = "idle")
        => /\ metrics.published = callers["t1"].calls + callers["t2"].calls
           /\ metrics.bars_published_total
                = callers["t1"].calls + callers["t2"].calls

C31_Witness ==
    /\ \A t \in Threads : callers[t].pc = "idle" /\ callers[t].calls = MaxCalls
    /\ metrics.published = 2 * MaxCalls

\* C32: the dedup structure is a bounded FIFO set: the fingerprint set is the
\* set of elements of the queue, the queue holds no fingerprint twice and at
\* most dedup_max of them, a fingerprint leaves only on overflow and then it
\* is the oldest, and a payload whose fingerprint is in the set at its dedup
\* check is not handed to the publisher
C32_BoundedFifoSet ==
    /\ [](/\ dedup_set = {dedup_q[i] : i \in DOMAIN dedup_q}
          /\ \A i, j \in DOMAIN dedup_q : dedup_q[i] = dedup_q[j] => i = j
          /\ Len(dedup_q) <= cfg.dedup_max_size)
    /\ [][/\ dedup_set \ dedup_set' # {}
                => /\ Len(dedup_q) = cfg.dedup_max_size
                   /\ dedup_set \ dedup_set' = {Head(dedup_q)}
                   /\ Tail(dedup_q) = SubSeq(dedup_q', 1, Len(dedup_q') - 1)
          /\ dedup_q' # dedup_q
                => /\ Len(dedup_q) < cfg.dedup_max_size => dedup_set \subseteq dedup_set'
                   /\ dedup_q'[Len(dedup_q')] \notin dedup_set
          /\ \A t \in Threads :
                (th[t].pc = "pub" /\ th'[t] # th[t])
                    => LET payload == Head(th[t].to_publish)
                           key == IF cfg.mode = "forming_and_close"
                                  THEN <<payload.code, payload.period,
                                         payload.bar_end_ts,
                                         IF payload.is_closed THEN 1 ELSE 0>>
                                  ELSE <<payload.code, payload.period,
                                         payload.bar_end_ts>>
                       IN  /\ key \in dedup_set => th'[t].pc # "send"
                           /\ th'[t].pc = "send" => key \in dedup_set'
          /\ published' # published
                => \E t \in Threads : th[t].pc = "send" /\ th'[t] # th[t]]_vars

C32_Witness ==
    /\ cfg.dedup_max_size = MaxDedup /\ Len(dedup_q) = MaxDedup
    /\ Len(published) > MaxDedup
    /\ \E t \in Threads :
            /\ th[t].pc = "pub"
            /\ ~Skipped(cfg.mode, Head(th[t].to_publish))
            /\ DedupKey(cfg.mode, Head(th[t].to_publish)) \in dedup_set

\* C33: a BarState exists only for keys of the active-key set: once
\* remove_subscription has removed a key, no BarState for it exists until the
\* key is added again, whatever callbacks are in flight
C33_BarStateOnlyForActiveKeys ==
    \A k \in DOMAIN bar_states : k \in subs

\* C36: a bar is handed to the publisher only for a key that is in the
\* active-key set when its raw event is dispatched: a callback publishes
\* nothing for a code that is not subscribed, also when the code arrives
\* bundled with other codes
C36_PublishOnlyActiveKeys ==
    [][\A i \in DOMAIN published' :
            i > Len(published)
                => <<published'[i].code, published'[i].period>> \in subs]_vars

\* ------------------------------------------------------------------------
\* Registry.save and Registry.delete as the bus sees them (registry.py
\* 90-101): one command of the redis client per step, each of them visible
\* to every other client of the bus
\* ------------------------------------------------------------------------

\* save(sub_id, spec) of a fresh sub_id: hset of the hash, sadd to <p>:subs,
\* sadd to <p>:strategy:<strategy_id>:subs
SaveStep(sub_id, spec) ==
    /\ \/ /\ ctrl_thr.pc = "start"
          /\ InNone(registry, sub_id)
          /\ registry' = [registry EXCEPT !.sub =
                            [s \in DOMAIN registry.sub \cup {sub_id} |->
                                IF s = sub_id THEN EncodeMapping(spec)
                                ELSE registry.sub[s]]]
          /\ ctrl_thr' = [pc |-> "sadd_subs", stop_evt |-> FALSE,
                          pubsub |-> FALSE, msg |-> "none",
                          sub_id |-> sub_id,
                          strategy_id |-> spec.strategy_id]
       \/ /\ ctrl_thr.pc = "sadd_subs"
          /\ sub_id = ctrl_thr.sub_id /\ spec.strategy_id = ctrl_thr.strategy_id
          /\ registry' = [registry EXCEPT !.subs = @ \cup {sub_id}]
          /\ ctrl_thr' = [ctrl_thr EXCEPT !.pc = "sadd_strategy"]
       \/ /\ ctrl_thr.pc = "sadd_strategy"
          /\ sub_id = ctrl_thr.sub_id /\ spec.strategy_id = ctrl_thr.strategy_id
          /\ registry' = [registry EXCEPT !.strategy_subs =
                            @ \cup {<<spec.strategy_id, sub_id>>}]
          /\ ctrl_thr' = [pc |-> "start", stop_evt |-> FALSE,
                          pubsub |-> FALSE, msg |-> "none"]
    /\ UNCHANGED <<cfg, subs, registered, engine, th, ctl, nev, twin, quotes,
                   accept, acks, ncmd, bus, main, health_thr, kv, callers,
                   feeder>>

\* delete(sub_id): hgetall, srem from the strategy's set when the hash names
\* one, delete of the hash, srem from <p>:subs
DeleteStep(sub_id) ==
    /\ \/ /\ ctrl_thr.pc = "start"
          /\ registry' = registry
          /\ ctrl_thr' = [pc |-> IF Found(registry, sub_id)
                                 THEN "srem_strategy" ELSE "delete",
                          stop_evt |-> FALSE, pubsub |-> FALSE,
                          msg |-> "none", sub_id |-> sub_id,
                          strategy_id |-> IF Found(registry, sub_id)
                                          THEN registry.sub[sub_id].strategy_id
                                          ELSE ""]
       \/ /\ ctrl_thr.pc = "srem_strategy" /\ sub_id = ctrl_thr.sub_id
          /\ registry' = [registry EXCEPT !.strategy_subs =
                            @ \ {<<ctrl_thr.strategy_id, sub_id>>}]
          /\ ctrl_thr' = [ctrl_thr EXCEPT !.pc = "delete"]
       \/ /\ ctrl_thr.pc = "delete" /\ sub_id = ctrl_thr.sub_id
          /\ registry' = [registry EXCEPT !.sub =
                            [s \in DOMAIN registry.sub \ {sub_id} |->
                                registry.sub[s]]]
          /\ ctrl_thr' = [ctrl_thr EXCEPT !.pc = "srem_subs"]
       \/ /\ ctrl_thr.pc = "srem_subs" /\ sub_id = ctrl_thr.sub_id
          /\ registry' = [registry EXCEPT !.subs = @ \ {sub_id}]
          /\ ctrl_thr' = [pc |-> "start", stop_evt |-> FALSE,
                          pubsub |-> FALSE, msg |-> "none"]
    /\ UNCHANGED <<cfg, subs, registered, engine, th, ctl, nev, twin, quotes,
                   accept, acks, ncmd, bus, main, health_thr, kv, callers,
                   feeder>>

RegistryNext ==
    \/ \E sub_id \in 1..MaxCmds, strategy_id \in {"s1", "s2"},
          codes \in {<<"A">>, <<"A", "B">>} :
            SaveStep(sub_id, [strategy_id |-> strategy_id, codes |-> codes,
                              periods |-> <<"1m">>, mode |-> cfg.mode,
                              preload_days |-> 0])
    \/ \E sub_id \in 1..MaxCmds : DeleteStep(sub_id)

SpecRegistry ==
    PlaneInit /\ [][RegistryNext]_vars

\* C34: whatever client reads the Registry while a save or a delete is in
\* progress, it finds each sub_id either in all three key families or in
\* none of them
C34_SaveDeleteAtomic ==
    \A sub_id \in SubIds :
        \/ InNone(registry, sub_id)
        \/ \E strategy_id \in {"s1", "s2"} :
                InAllThree(registry, sub_id, strategy_id)

\* C35: a subscribe command answered by the ACK `subscribe failed' leaves
\* the active keys and the vendor registrations as they were before it
C35_FailedSubscribeLeavesEngine ==
    [][(/\ Len(acks') = Len(acks) + 1
        /\ acks'[Len(acks')].error = "subscribe failed: subscribe_quote")
            => (subs' = subs /\ registered' = registered)]_vars

C38_AllowlistCoversUnsubscribe ==
    [][(/\ accept # {}
        /\ Len(acks') = Len(acks) + 1
        /\ acks'[Len(acks')].ch \notin accept)
            => (subs' = subs /\ registry' = registry)]_vars

\* C39: no message ends the ControlPlane loop: the thread is never ended by
\* the message it is processing, be it invalid JSON, an unknown action,
\* JSON that is not an object or a subscribe whose preload_days is no
\* integer
C39_NoMessageEndsLoop ==
    ctrl_thr.pc = "dead" => ctrl_thr.msg = "none"

\* ------------------------------------------------------------------------
\* Mock mode: run_forever, stop and the MockBarFeeder thread
\* (realtime_service.py 103-179, 281-302, 374-377).  feeder.rf is the
\* position of the thread that called run_forever, feeder.pc that of the
\* feeder thread ("none": no feeder was created), feeder.states the
\* feeder's _states (last_dt per key)
\* ------------------------------------------------------------------------

\* run_forever with cfg.mock.enabled: add_subscription of cfg.codes (no
\* vendor registration in mock mode), then the feeder is created and
\* started and the thread sleeps in `while True'; only KeyboardInterrupt
\* leaves that loop, and the finally clause then calls stop() and joins
MockRunForever(codes) ==
    /\ \/ /\ feeder.rf = "entry"
          /\ subs' = subs \cup Range(KeyList(codes, <<"1m">>))
          /\ feeder' = [feeder EXCEPT !.rf = "sleeping", !.pc = "check",
                                      !.stop_evt = FALSE]
       \/ /\ feeder.rf = "sleeping"
          /\ subs' = subs
          /\ feeder' = [feeder EXCEPT !.rf = "returned", !.stop_evt = TRUE,
                                      !.stop_called = TRUE]
    /\ UNCHANGED <<cfg, registered, engine, th, ctl, nev, twin, quotes, plane,
                   bus, main, ctrl_thr, health_thr, kv, callers>>

\* RealtimeSubscriptionService.stop called by another thread:
\* `if self.cfg.mock.enabled and self._mock_feeder: self._mock_feeder.stop()'
MockStop ==
    /\ feeder' = [feeder EXCEPT !.stop_called = TRUE,
                                !.stop_evt = (feeder.pc # "none") \/ @]
    /\ UNCHANGED <<cfg, subs, registered, engine, th, ctl, nev, twin, quotes,
                   plane, bus, main, ctrl_thr, health_thr, kv, callers>>

\* MockBarFeeder.run: the loop test `while not self._stop_evt.is_set()',
\* then one _emit_cycle over a snapshot of the subscriptions, in the order
\* the set yields them: a key seen for the first time gets its seed row
\* and the next row, the others the row after their last_dt; every row
\* goes through _on_datas.  _stop_evt.wait(step) leads back to the test
FeederRun ==
    /\ \/ /\ feeder.pc = "check"
          /\ feeder' = [feeder EXCEPT !.pc = IF feeder.stop_evt THEN "exited"
                                             ELSE "emit"]
          /\ UNCHANGED engine
       \/ /\ feeder.pc = "emit"
          /\ \A k \in subs \cap DOMAIN feeder.states :
                feeder.states[k] < MaxMock
          /\ \E order \in {o \in [1..Cardinality(subs) -> subs] :
                                Range(o) = subs} :
                LET last(k) == IF k \in DOMAIN feeder.states
                               THEN feeder.states[k] ELSE None
                    row(dt) == [time |-> [k |-> "iso", v |-> dt],
                                close |-> 2510, isClosed |-> "True"]
                    datas == [i \in 1..Len(order) |->
                                [code |-> order[i][1],
                                 rows |-> IF last(order[i]) = None
                                          THEN <<row(1), row(2)>>
                                          ELSE <<row(last(order[i]) + 1)>>]]
                    done == RunWorkUntil(
                                [eng |-> ThisEngine, calls |-> 0,
                                 raised |-> FALSE],
                                cfg.mode, DedupMax, "1m",
                                WorkList("1m", datas), 0).eng
                IN  /\ bar_states' = done.bar_states
                    /\ dedup_set' = done.dedup_set
                    /\ dedup_q' = done.dedup_q
                    /\ last_pub_ts' = done.last_pub_ts
                    /\ published' = done.published
                    /\ feeder' = [feeder EXCEPT
                            !.pc = "check",
                            !.states = [k \in subs |->
                                            IF last(k) = None THEN 2
                                            ELSE last(k) + 1]]
    /\ UNCHANGED <<cfg, subs, registered, th, ctl, nev, twin, quotes, plane,
                   bus, main, ctrl_thr, health_thr, kv, callers>>

MockNext ==
    \/ \E codes \in {<<>>, <<"A">>, <<"A", "B">>} : MockRunForever(codes)
    \/ MockStop
    \/ FeederRun

SpecMock ==
    Init /\ [][MockNext]_vars

\* C40: once stop() has been called on the engine in mock mode the feed
\* halts, whether stop() came before or after run_forever started the
\* feeder: the feeder thread does not pass its loop test again, so it
\* begins no further emit cycle and publishes no further bar
C40_StopHaltsFeed ==
    [][(feeder.stop_called /\ feeder.pc = "check")
            => feeder'.pc # "emit"]_vars

====
